---- MODULE Spec2Model ----
(***************************************************************************)
(* Lyrics acquisition and synchronisation engine of the dynamic music      *)
(* wallpaper: the track handler (trackListener.js), the fallback chain and *)
(* its four provider adapters, the timed-text parser and the sync cursor   *)
(* (lyrics.js), and the host callbacks of the main module.                 *)
(*                                                                         *)
(* Times are integers in hundredths of a second.  A JavaScript value that  *)
(* may be null is a set: Null is {} and Some(x) is {x}.  A string of the   *)
(* lyrics text is a sequence of tokens.                                    *)
(***************************************************************************)
EXTENDS Integers, Sequences, FiniteSets, Bags, TLC

VARIABLES
  currentLyrics,    \* state.currentLyrics: Null or Some(timeline)
  lyricsSource,     \* state.lyricsSource
  lyricsType,       \* state.lyricsType
  currentPosition,  \* state.currentPosition, hundredths of a second
  musixmatchKey,    \* state.musixmatchKey: Null or Some(key)
  geniusKey,        \* state.geniusKey: Null or Some(key)
  trackTitle,       \* the text of the #track-title element
  container,        \* the content of the #lyrics-container element
  pending,          \* the suspended invocations of livelyCurrentTrack (a bag)
  threw,            \* an exception escaped updateLyricsSync
  trace,            \* history: the observed fetchLyrics call
  shown,            \* history: Some(position) of the last direct cursor call
  payload,          \* the argument of a direct call of parseEnhancedLRC
  lyricsArray,      \* Null, or Some(what that call returned)
  canvas,           \* the width and height of the canvas element
  search,           \* the arguments of a direct call of formatSearch
  formatted,        \* Null, or Some(what that call returned)
  settings,         \* the display settings and colours of the state object
  images            \* the thumbnails that are loading (new Image(), no onload yet)

vars == <<currentLyrics, lyricsSource, lyricsType, currentPosition,
          musixmatchKey, geniusKey, trackTitle, container, pending, threw,
          trace, shown, payload, lyricsArray, canvas, search, formatted,
          settings, images>>

\* ------------------------------------------------------------------ bounds

\* handler invocations that may be suspended in fetchLyrics at the same time
MaxInFlight == 2

\* ------------------------------------------------------------------ values

Null == {}
Some(x) == {x}
Get(o) == CHOOSE x \in o : TRUE

\* obj[name] of JavaScript: undefined (Null) when the object has no such property
Field(obj, name) == IF name \in DOMAIN obj THEN Some(obj[name]) ELSE Null

\* window.innerWidth and innerHeight: the sizes the window takes, and the one
\* it has when the page loads
WindowSizes == {[w |-> 1920, h |-> 1080], [w |-> 1280, h |-> 720]}
LoadSize == [width |-> 1920, height |-> 1080]

\* formatSearch called without an artist and without a title
NoSearch == [artist |-> Null, title |-> Null]

Max(S) == CHOOSE x \in S : \A y \in S : y <= x
Min(S) == CHOOSE x \in S : \A y \in S : x <= y

\* The value a provider put in its lyrics field: k is "absent" (null,
\* undefined or ""), "other" (a truthy value that is no string) or "text".
Absent == [k |-> "absent", lines |-> <<>>]
NonString == [k |-> "other", lines |-> <<>>]
Text(ls) == [k |-> "text", lines |-> ls]

\* One part of a line body, as text.split(/(<[^>]+>)/) cuts it: a timestamp
\* tag <MM:SS.f..> ("ts"), any other <...> tag ("tag"), or a run of text.
TsPart(mm, ss, frac, digits) ==
  [k |-> "ts", mm |-> mm, ss |-> ss, frac |-> frac, digits |-> digits, text |-> "<ts>"]
TagPart(s) == [k |-> "tag", mm |-> 0, ss |-> 0, frac |-> 0, digits |-> 0, text |-> s]
TextPart(s) == [k |-> "text", mm |-> 0, ss |-> 0, frac |-> 0, digits |-> 0, text |-> s]

\* One line of a payload: lead says whether it starts with a [MM:SS.f..] tag
\* of two-digit minutes and seconds, digits is the width of its fraction.
TimedLine(mm, ss, frac, digits, parts) ==
  [lead |-> TRUE, mm |-> mm, ss |-> ss, frac |-> frac, digits |-> digits, parts |-> parts]
PlainLine(parts) ==
  [lead |-> FALSE, mm |-> 0, ss |-> 0, frac |-> 0, digits |-> 0, parts |-> parts]

\* ------------------------------------------------------------------ parser

\* no line is skipped: every line is taken for a candidate
LineMatchesEveryLine(l) == TRUE

\* /^\[(\d{2}):(\d{2})\.(\d{2,3})\]/ matches the line
LineMatches(l) == l.lead /\ l.digits \in {2, 3}

\* /<(\d{2}):(\d{2})\.(\d{2,3})>/ matches the part
WordMatches(p) == p.k = "ts" /\ p.digits \in {2, 3}

\* parseInt(m[1]) * 60 + parseInt(m[2]) + parseInt(m[3]) / 100, in hundredths
TimeOf(mm, ss, frac) == mm * 6000 + ss * 100 + frac

\* part.trim() is the empty string
IsBlank(s) == s \in {"", " "}

\* String.prototype.trim on the body: blank runs at both ends go
RECURSIVE TrimLeft(_)
TrimLeft(parts) ==
  IF parts # <<>> /\ Head(parts).k = "text" /\ IsBlank(Head(parts).text)
  THEN TrimLeft(Tail(parts))
  ELSE parts

RECURSIVE TrimRight(_)
TrimRight(parts) ==
  IF parts # <<>> /\ parts[Len(parts)].k = "text" /\ IsBlank(parts[Len(parts)].text)
  THEN TrimRight(SubSeq(parts, 1, Len(parts) - 1))
  ELSE parts

Trim(parts) == TrimRight(TrimLeft(parts))

\* only the timestamp tags are removed
RECURSIVE CleanLineTextTimestampsOnly(_)
CleanLineTextTimestampsOnly(parts) ==
  IF parts = <<>> THEN <<>>
  ELSE IF Head(parts).k # "ts"
       THEN <<Head(parts).text>> \o CleanLineTextTimestampsOnly(Tail(parts))
       ELSE CleanLineTextTimestampsOnly(Tail(parts))

\* text.replace(/<[^>]+>/g, ""): every <...> tag is removed
RECURSIVE CleanLineText(_)
CleanLineText(parts) ==
  IF parts = <<>> THEN <<>>
  ELSE IF Head(parts).k = "text"
       THEN <<Head(parts).text>> \o CleanLineText(Tail(parts))
       ELSE CleanLineText(Tail(parts))

\* the parts.forEach of the parser: a timestamp tag sets the running time,
\* any other non-blank part becomes a word at the running time
RECURSIVE WordsOf(_, _)
WordsOf(parts, currentTime) ==
  IF parts = <<>> THEN <<>>
  ELSE LET p == Head(parts) IN
       IF WordMatches(p)
       THEN WordsOf(Tail(parts), TimeOf(p.mm, p.ss, p.frac))
       ELSE IF ~IsBlank(p.text)
            THEN <<[text |-> p.text, time |-> currentTime]>>
                   \o WordsOf(Tail(parts), currentTime)
            ELSE WordsOf(Tail(parts), currentTime)

\* the object pushed for one matching line
SegmentOf(l) ==
  LET startTime == TimeOf(l.mm, l.ss, l.frac)
      text == Trim(l.parts)
      words == IF \E i \in 1..Len(text) : WordMatches(text[i])
               THEN WordsOf(text, startTime)
               ELSE <<>>
  IN [startTime |-> startTime,
      text |-> CleanLineText(text),
      words |-> IF Len(words) > 0 THEN Some(words) ELSE Null]

\* a sort that puts a segment before the earlier ones of the same start
InsertByStartBeforeEqual(sorted, seg) ==
  LET before == {i \in 1..Len(sorted) : sorted[i].startTime < seg.startTime}
      n == IF before = {} THEN 0 ELSE Max(before)
  IN SubSeq(sorted, 1, n) \o <<seg>> \o SubSeq(sorted, n + 1, Len(sorted))

\* Array.prototype.sort((a, b) => a.startTime - b.startTime): stable
InsertByStart(sorted, seg) ==
  LET before == {i \in 1..Len(sorted) : sorted[i].startTime <= seg.startTime}
      n == IF before = {} THEN 0 ELSE Max(before)
  IN SubSeq(sorted, 1, n) \o <<seg>> \o SubSeq(sorted, n + 1, Len(sorted))

RECURSIVE SortByStart(_)
SortByStart(segs) ==
  IF segs = <<>> THEN <<>>
  ELSE InsertByStart(SortByStart(SubSeq(segs, 1, Len(segs) - 1)), segs[Len(segs)])

\* a line whose body is empty is skipped
RECURSIVE SegmentsOfSkipsEmpty(_)
SegmentsOfSkipsEmpty(lines) ==
  IF lines = <<>> THEN <<>>
  ELSE IF LineMatches(Head(lines)) /\ Trim(Head(lines).parts) # <<>>
       THEN <<SegmentOf(Head(lines))>> \o SegmentsOfSkipsEmpty(Tail(lines))
       ELSE SegmentsOfSkipsEmpty(Tail(lines))

RECURSIVE SegmentsOf(_)
SegmentsOf(lines) ==
  IF lines = <<>> THEN <<>>
  ELSE IF LineMatches(Head(lines))
       THEN <<SegmentOf(Head(lines))>> \o SegmentsOf(Tail(lines))
       ELSE SegmentsOf(Tail(lines))

\* lrcContent.split is not a function: a truthy value that is no string
ParseThrows(lrcContent) == lrcContent.k = "other"

\* parseEnhancedLRC of a payload it does not throw on
ParseEnhancedLRC(lrcContent) ==
  IF lrcContent.k = "absent" THEN <<>>
  ELSE SortByStart(SegmentsOf(lrcContent.lines))

\* ------------------------------------------------------------------ cursor

\* how many segments updateLyricsSync shows: slice(activeIndex, activeIndex + 4)
LinesShown == 4

\* the content of #lyrics-container
EmptyView == [kind |-> "empty", source |-> "", activeIndex |-> -1, lines |-> <<>>]
Message(kind) == [kind |-> kind, source |-> "", activeIndex |-> -1, lines |-> <<>>]

\* the fallback for a position before the first line is the last line
ActiveLineFallsBackToLast(timeline, currentTime) ==
  LET hits == {i \in 1..Len(timeline) : currentTime >= timeline[i].startTime}
  IN IF hits # {} THEN Max(hits)
     ELSE Len(timeline)

\* find without the reverse: the first line that has started
ActiveLineFirstStarted(timeline, currentTime) ==
  LET hits == {i \in 1..Len(timeline) : currentTime >= timeline[i].startTime}
  IN IF hits # {} THEN Min(hits)
     ELSE IF Len(timeline) > 0 THEN 1
     ELSE 0

\* [...state.currentLyrics].reverse().find(l => currentTime >= l.startTime),
\* then the fallback to the first line; the result is the place of the found
\* object in the array (what indexOf returns for it), 0 when nothing is found
ActiveLine(timeline, currentTime) ==
  LET hits == {i \in 1..Len(timeline) : currentTime >= timeline[i].startTime}
  IN IF hits # {} THEN Max(hits)
     ELSE IF Len(timeline) > 0 THEN 1
     ELSE 0

\* isPast without `&& isActive`: the words of every shown line are marked
RenderLineAnyLine(line, isActive, currentTime, type) ==
  IF type \in {"syllable", "word"} /\ line.words # Null
  THEN [text |-> line.text, isActive |-> isActive,
        words |-> Some([i \in 1..Len(Get(line.words)) |->
                    [text |-> Get(line.words)[i].text,
                     isPast |-> currentTime >= Get(line.words)[i].time]])]
  ELSE [text |-> line.text, isActive |-> isActive, words |-> Null]

\* what the forEach over linesToShow renders for one line
RenderLine(line, isActive, currentTime, type) ==
  IF type \in {"syllable", "word"} /\ line.words # Null
  THEN [text |-> line.text, isActive |-> isActive,
        words |-> Some([i \in 1..Len(Get(line.words)) |->
                    [text |-> Get(line.words)[i].text,
                     isPast |-> currentTime >= Get(line.words)[i].time /\ isActive]])]
  ELSE [text |-> line.text, isActive |-> isActive, words |-> Null]

\* if (!state.currentLyrics || !container) return;  (the element exists)
CursorReturnsEarly(lyrics) == lyrics = Null

\* slice(activeIndex): every line from the active one on is shown
UpdateLyricsSyncNoLimit(currentTime, lyrics, source, type, old) ==
  IF lyrics = Null THEN [threw |-> FALSE, view |-> old]
  ELSE LET timeline == Get(lyrics)
           active == ActiveLine(timeline, currentTime)
       IN IF active = 0 THEN [threw |-> FALSE, view |-> old]
          ELSE [threw |-> FALSE,
                view |-> [kind |-> "lines",
                          source |-> source,
                          activeIndex |-> active - 1,
                          lines |-> [i \in 1..(Len(timeline) - active + 1) |->
                                      RenderLine(timeline[active + i - 1], i = 1,
                                                 currentTime, type)]]]

\* updateLyricsSync(currentTime, state): the new content of the container and
\* whether the call threw ([...null] is a TypeError)
UpdateLyricsSync(currentTime, lyrics, source, type, old) ==
  IF CursorReturnsEarly(lyrics) THEN [threw |-> FALSE, view |-> old]
  ELSE IF lyrics = Null THEN [threw |-> TRUE, view |-> old]
  ELSE LET timeline == Get(lyrics)
           active == ActiveLine(timeline, currentTime)
           last == Min({active + LinesShown - 1, Len(timeline)})
       IN IF active = 0 THEN [threw |-> FALSE, view |-> old]
          ELSE [threw |-> FALSE,
                view |-> [kind |-> "lines",
                          source |-> source,
                          activeIndex |-> active - 1,
                          lines |-> [i \in 1..(last - active + 1) |->
                                      RenderLine(timeline[active + i - 1], i = 1,
                                                 currentTime, type)]]]

\* ------------------------------------------------------------------ formatSearch

\* a string is a sequence of characters; these are the white space among them
IsSpace(c) == c \in {" ", "\t"}

\* String.prototype.trim
RECURSIVE TrimString(_)
TrimString(str) ==
  IF str # <<>> /\ IsSpace(Head(str)) THEN TrimString(Tail(str))
  ELSE IF str # <<>> /\ IsSpace(str[Len(str)]) THEN TrimString(SubSeq(str, 1, Len(str) - 1))
  ELSE str

\* String.prototype.toLowerCase
ToLowerCase(str) == [i \in 1..Len(str) |-> IF str[i] = "B" THEN "b" ELSE str[i]]

\* the white space is left as it is
CollapseNothing(str) == str

\* replace(/\s+/g, " "): every run of white space becomes one space
RECURSIVE CollapseWhitespace(_)
CollapseWhitespace(str) ==
  IF str = <<>> THEN <<>>
  ELSE IF IsSpace(Head(str))
       THEN IF Len(str) > 1 /\ IsSpace(str[2])
            THEN CollapseWhitespace(Tail(str))
            ELSE <<" ">> \o CollapseWhitespace(Tail(str))
       ELSE <<Head(str)>> \o CollapseWhitespace(Tail(str))

\* artist || ""
OrEmpty(arg) == IF arg = Null THEN <<>> ELSE Get(arg)

\* formatSearch(artist, title)
FormatSearch(artist, title) ==
  [artist |-> ToLowerCase(TrimString(OrEmpty(artist))),
   title |-> ToLowerCase(TrimString(OrEmpty(title))),
   artistClean |-> CollapseWhitespace(ToLowerCase(TrimString(OrEmpty(artist)))),
   titleClean |-> CollapseWhitespace(ToLowerCase(TrimString(OrEmpty(title))))]

\* ------------------------------------------------------------------ providers

\* the order of fetchLyrics
Adapters == <<"Better Lyrics", "Musixmatch", "LRClib", "Genius">>

\* the tracks the host reports
Tracks == {"X", "Y"}

\* what the servers can hold for a track: a timed text that names the track
\* and the provider, with its lines out of order and, for the two providers of
\* sub-line timing, embedded word tags
TimedDoc(t, a) ==
  IF a \in {"Better Lyrics", "Musixmatch"}
  THEN Text(<<TimedLine(0, 5, 0, 2, <<TsPart(0, 5, 10, 2), TextPart(a)>>),
              TimedLine(0, 1, 0, 2, <<TsPart(0, 1, 0, 2), TextPart(t),
                                      TsPart(0, 2, 0, 2), TextPart("la")>>)>>)
  ELSE Text(<<TimedLine(0, 5, 0, 2, <<TextPart(a)>>),
              TimedLine(0, 1, 0, 2, <<TextPart(t)>>)>>)

\* a text without any line tag
UntimedDoc(t) == Text(<<PlainLine(<<TextPart(t)>>), PlainLine(<<TextPart("la")>>)>>)

\* `"${title}" by ${artist}\n\nView full lyrics: ${url}`
GeniusDoc(t) ==
  Text(<<PlainLine(<<TextPart(t)>>), PlainLine(<<>>), PlainLine(<<TextPart("View full lyrics")>>)>>)

PayloadOf(kind, t, a) ==
  CASE kind = "absent" -> Absent
    [] kind = "other" -> NonString
    [] kind = "untimed" -> UntimedDoc(t)
    [] OTHER -> TimedDoc(t, a)

\* what one network call can end with, "abort" aside (the abort timer's doing):
\* the fetch rejects, the status is not OK, the body is no JSON, a field
\* access on the decoded body throws, or the body is one of the shapes the
\* adapter tells apart
BetterLyricsResponses ==
  {"neterr", "notok", "badjson", "badshape", "notracks", "nosynced",
   "other", "untimed", "timed"}
MusixmatchResponses ==
  {"neterr", "notok", "badjson", "badshape", "status", "absent",
   "other", "untimed", "timed"}
LrclibResponses ==
  {"neterr", "notok", "badjson", "badshape", "empty", "nolyrics",
   "synced_other", "synced_untimed", "synced_timed", "plain_other", "plain_untimed"}
GeniusResponses == {"neterr", "notok", "badjson", "badshape", "nohits", "hit"}
\* the relay wraps the body in a contents field that is decoded a second time
RelayResponses == {"nocontents", "badcontents"}

Responses(stage) ==
  CASE stage = "BL" -> BetterLyricsResponses
    [] stage = "BL_relay" -> BetterLyricsResponses \cup RelayResponses
    [] stage = "MM" -> MusixmatchResponses
    [] stage \in {"LRC1", "LRC2"} -> LrclibResponses
    [] stage \in {"LRC1_relay", "LRC2_relay"} -> LrclibResponses \cup RelayResponses
    [] OTHER -> GeniusResponses

AdapterOfCall(stage) ==
  CASE stage \in {"BL", "BL_relay"} -> "Better Lyrics"
    [] stage = "MM" -> "Musixmatch"
    [] stage = "GEN" -> "Genius"
    [] OTHER -> "LRClib"

IsRelay(stage) == stage \in {"BL_relay", "LRC1_relay", "LRC2_relay"}

\* how a call ended, as the history keeps it
ResponseClass(r) ==
  CASE r \in {"neterr", "abort"} -> "rejected"
    [] r = "notok" -> "notok"
    [] r \in {"badjson", "badshape", "nocontents", "badcontents"} -> "garbled"
    [] OTHER -> "answered"

\* where an async function stands when control leaves it; tried lists the
\* fetches it called with a signal that was aborted already, which reject at
\* once and reach no server
Susp(stage, timer) ==
  [k |-> "suspend", stage |-> stage, timer |-> timer, res |-> Null, caught |-> FALSE,
   tried |-> <<>>]
Ret(res) ==
  [k |-> "return", stage |-> "", timer |-> "", res |-> res, caught |-> FALSE,
   tried |-> <<>>]
Thr ==
  [k |-> "throw", stage |-> "", timer |-> "", res |-> Null, caught |-> FALSE,
   tried |-> <<>>]

\* a provider result
Result(lyrics, source, synced, type) ==
  Some([lyrics |-> lyrics, source |-> source, synced |-> synced, type |-> type])

\* an answer without tracks or without syncedLyrics is taken for a failure
\* and sent to the relay
BetterLyricsDirectRelayOnEmpty(t, timer, r) ==
  CASE r = "abort" -> [Thr EXCEPT !.tried = <<"BL_relay">>]
    [] r = "neterr" -> Susp("BL_relay", timer)
    [] r \in {"notok", "badjson", "badshape", "notracks", "nosynced"} ->
         Susp("BL_relay", "cleared")
    [] OTHER -> Ret(Result(PayloadOf(r, t, "Better Lyrics"), "Better Lyrics", TRUE, "syllable"))

\* the inner try of fetchFromBetterLyrics on the direct call's end, and the
\* fetch its catch block issues; clearTimeout runs once the direct call
\* has answered, whatever the answer; after an abort the relay fetch is
\* called with the aborted signal and rejects at once
BetterLyricsDirect(t, timer, r) ==
  CASE r = "abort" -> [Thr EXCEPT !.tried = <<"BL_relay">>]
    [] r = "neterr" -> Susp("BL_relay", timer)
    [] r \in {"notok", "badjson", "badshape"} -> Susp("BL_relay", "cleared")
    [] r \in {"notracks", "nosynced"} -> Ret(Null)
    [] OTHER -> Ret(Result(PayloadOf(r, t, "Better Lyrics"), "Better Lyrics", TRUE, "syllable"))

\* a relay that is tried again whenever it fails
BetterLyricsRelayRetried(t, timer, r) ==
  CASE r \in {"abort", "neterr", "badjson", "badcontents", "badshape", "notok"} ->
         Susp("BL_relay", timer)
    [] r \in {"nocontents", "notracks", "nosynced"} -> Ret(Null)
    [] OTHER -> Ret(Result(PayloadOf(r, t, "Better Lyrics"), "Better Lyrics", TRUE, "syllable"))

\* the catch block of fetchFromBetterLyrics on the relay call's end
BetterLyricsRelay(t, timer, r) ==
  CASE r \in {"abort", "neterr", "badjson", "badcontents", "badshape"} -> Thr
    [] r \in {"notok", "nocontents", "notracks", "nosynced"} -> Ret(Null)
    [] OTHER -> Ret(Result(PayloadOf(r, t, "Better Lyrics"), "Better Lyrics", TRUE, "syllable"))

\* the call is made whether or not there is a key
MusixmatchStartUnchecked(apiKey) == Susp("MM", "armed")

\* fetchFromMusixmatch up to its fetch
MusixmatchStart(apiKey) ==
  IF apiKey = Null THEN Ret(Null) ELSE Susp("MM", "armed")

\* fetchFromMusixmatch on the call's end
MusixmatchEnd(t, r) ==
  CASE r \in {"abort", "neterr", "badjson", "badshape"} -> Thr
    [] r \in {"notok", "status"} -> Ret(Null)
    [] OTHER -> Ret(Result(PayloadOf(r, t, "Musixmatch"), "Musixmatch", FALSE, "word"))

\* the fetches of the adapters
CallStages == {"BL", "BL_relay", "MM", "LRC1", "LRC1_relay", "LRC2", "LRC2_relay", "GEN"}

\* the format that failed is queried again until the abort timer fires
LrclibContinueSameFormat(stage, timer, aborted) ==
  IF aborted THEN Ret(Null)
  ELSE Susp(IF stage \in {"LRC1", "LRC1_relay"} THEN "LRC1" ELSE "LRC2", timer)

\* the `continue` of the loop over the two query formats of fetchFromLRClib;
\* on an aborted signal the next fetch rejects at once and the loop ends
LrclibContinue(stage, timer, aborted) ==
  IF stage \in {"LRC1", "LRC1_relay"}
  THEN IF aborted THEN [Ret(Null) EXCEPT !.tried = <<"LRC2">>] ELSE Susp("LRC2", timer)
  ELSE Ret(Null)

\* one entry of a result list of LRClib
Entry(synced, plain) == [syncedLyrics |-> synced, plainLyrics |-> plain]

\* the result list behind each answer of LRClib that decodes to one
LrclibResults(t, r) ==
  CASE r = "empty" -> <<>>
    [] r = "nolyrics" -> <<Entry(Absent, Absent), Entry(Absent, UntimedDoc(t))>>
    [] r = "synced_other" -> <<Entry(NonString, Absent)>>
    [] r = "synced_untimed" -> <<Entry(UntimedDoc(t), UntimedDoc(t))>>
    [] r = "synced_timed" ->
         <<Entry(Absent, UntimedDoc(t)), Entry(TimedDoc(t, "LRClib"), UntimedDoc(t))>>
    [] r = "plain_other" -> <<Entry(Absent, NonString)>>
    [] OTHER -> <<Entry(Absent, UntimedDoc(t)), Entry(Absent, NonString)>>

\* a value that is not null, undefined or the empty string
Truthy(value) == value.k # "absent"

\* the first entry, whatever it holds
LrclibTrackFirst(results) == results[1]

\* results.find((t) => t.syncedLyrics) || results[0]
LrclibTrack(results) ==
  IF \E i \in 1..Len(results) : Truthy(results[i].syncedLyrics)
  THEN results[CHOOSE i \in 1..Len(results) :
                 /\ Truthy(results[i].syncedLyrics)
                 /\ \A j \in 1..(i - 1) : ~Truthy(results[j].syncedLyrics)]
  ELSE results[1]

\* what fetchFromLRClib makes of the result list of the answer r: null stands
\* for `continue`
LrclibResult(t, r) ==
  LET results == LrclibResults(t, r) IN
  IF results = <<>> THEN Null
  ELSE LET track == LrclibTrack(results) IN
       IF ~Truthy(track.syncedLyrics) /\ ~Truthy(track.plainLyrics) THEN Null
       ELSE Result(IF Truthy(track.syncedLyrics) THEN track.syncedLyrics
                   ELSE track.plainLyrics,
                   "LRClib", Truthy(track.syncedLyrics), "line")

\* fetchFromLRClib on the end of the direct call of one query format;
\* clearTimeout runs only once a direct call has answered OK
LrclibDirect(t, stage, timer, r) ==
  CASE r = "abort" -> LrclibContinue(stage, timer, TRUE)
    [] r = "neterr" -> LrclibContinue(stage, timer, FALSE)
    [] r = "notok" -> Susp(IF stage = "LRC1" THEN "LRC1_relay" ELSE "LRC2_relay", timer)
    [] r \in {"badjson", "badshape"} -> LrclibContinue(stage, "cleared", FALSE)
    [] OTHER -> IF LrclibResult(t, r) = Null THEN LrclibContinue(stage, "cleared", FALSE)
                ELSE Ret(LrclibResult(t, r))

\* fetchFromLRClib on the end of the relay call of one query format
LrclibRelay(t, stage, timer, r) ==
  CASE r = "abort" -> LrclibContinue(stage, timer, TRUE)
    [] r \in {"neterr", "notok", "badjson", "nocontents", "badcontents", "badshape"} ->
         LrclibContinue(stage, timer, FALSE)
    [] OTHER -> IF LrclibResult(t, r) = Null THEN LrclibContinue(stage, timer, FALSE)
                ELSE Ret(LrclibResult(t, r))

\* fetchFromGenius up to its fetch
GeniusStart(accessToken) ==
  IF accessToken = Null THEN Ret(Null) ELSE Susp("GEN", "armed")

\* fetchFromGenius on the call's end
GeniusEnd(t, r) ==
  CASE r \in {"abort", "neterr", "badjson", "badshape"} -> Thr
    [] r \in {"notok", "nohits"} -> Ret(Null)
    [] OTHER -> Ret(Result(GeniusDoc(t), "Genius", FALSE, "line"))

\* no outermost catch block: the adapter rejects
AdapterCatchMissing(o) == o

\* the outermost try/catch of every adapter: catch (error) { return null; }
AdapterCatch(o) ==
  IF o.k = "throw" THEN [Ret(Null) EXCEPT !.caught = TRUE, !.tried = o.tried] ELSE o

\* the adapter whose call `stage` ended with r, resumed
AdapterResume(inv, r) ==
  AdapterCatch(
    CASE inv.stage = "BL" -> BetterLyricsDirect(inv.track, inv.timer, r)
      [] inv.stage = "BL_relay" -> BetterLyricsRelay(inv.track, inv.timer, r)
      [] inv.stage = "MM" -> MusixmatchEnd(inv.track, r)
      [] inv.stage \in {"LRC1", "LRC2"} -> LrclibDirect(inv.track, inv.stage, inv.timer, r)
      [] inv.stage \in {"LRC1_relay", "LRC2_relay"} ->
           LrclibRelay(inv.track, inv.stage, inv.timer, r)
      [] OTHER -> GeniusEnd(inv.track, r))

\* adapter number i of fetchLyrics, called
AdapterStart(inv, i) ==
  AdapterCatch(
    CASE i = 1 -> Susp("BL", "armed")
      [] i = 2 -> MusixmatchStart(inv.mmKey)
      [] i = 3 -> Susp("LRC1", "armed")
      [] OTHER -> GeniusStart(inv.genKey))

\* ------------------------------------------------------------------ fetchLyrics

\* one entry of the history: an adapter is invoked, a network call is issued,
\* a fetch is refused for its aborted signal, a call ends, an adapter returns
\* or rejects, fetchLyrics resolves or rejects
Ev(e, who, class, res) == [e |-> e, who |-> who, class |-> class, res |-> res]

\* the fetches the adapter called in vain before it left control with o
Refused(o) == [j \in 1..Len(o.tried) |-> Ev("refused", o.tried[j], "", Null)]

AdapterIndex(a) == CHOOSE i \in 1..Len(Adapters) : Adapters[i] = a

\* result && result.lyrics
HasLyrics(res) == res # Null /\ Get(res).lyrics.k # "absent"

\* the length is not looked at: an array is truthy
AcceptsAnyParse(parsed) == TRUE

\* the test is inverted
AcceptsEmptyOnly(parsed) == Len(parsed) = 0

\* parsed && parsed.length > 0
Accepts(parsed) == Len(parsed) > 0

\* { ...result, parsedLyrics: parsed, displayType: result.type }
FetchResult(res, parsed) ==
  Some([lyrics |-> res.lyrics, source |-> res.source, synced |-> res.synced,
        type |-> res.type, parsedLyrics |-> parsed, displayType |-> res.type])

\* where fetchLyrics stands when control leaves it
Running(o, events) ==
  [done |-> FALSE, rejected |-> FALSE, stage |-> o.stage, timer |-> o.timer,
   result |-> Null, events |-> events]
Returned(result, events) ==
  [done |-> TRUE, rejected |-> FALSE, stage |-> "", timer |-> "",
   result |-> result, events |-> events]
Thrown(events) ==
  [done |-> TRUE, rejected |-> TRUE, stage |-> "", timer |-> "",
   result |-> Null, events |-> events]

\* the body of fetchLyrics from the point where adapter number i has left
\* control with o: a suspended adapter suspends it, a result whose payload
\* parses to a non-empty timeline ends it, anything else moves on
RECURSIVE FetchLyricsFrom(_, _, _, _)
FetchLyricsFrom(inv, i, o, events) ==
  CASE o.k = "suspend" ->
         Running(o, events \o Refused(o) \o <<Ev("call", o.stage, "", Null)>>)
    [] o.k = "throw" ->
         Thrown(events \o Refused(o) \o <<Ev("reject", Adapters[i], "", Null)>>)
    [] OTHER ->
       LET ev == events \o Refused(o) \o
                   <<Ev("return", Adapters[i], IF o.caught THEN "caught" ELSE "", o.res)>> IN
       IF HasLyrics(o.res) /\ ParseThrows(Get(o.res).lyrics) THEN Thrown(ev)
       ELSE IF HasLyrics(o.res) /\ Accepts(ParseEnhancedLRC(Get(o.res).lyrics))
       THEN Returned(FetchResult(Get(o.res), ParseEnhancedLRC(Get(o.res).lyrics)), ev)
       ELSE IF i = Len(Adapters) THEN Returned(Null, ev)
       ELSE FetchLyricsFrom(inv, i + 1, AdapterStart(inv, i + 1),
                            ev \o <<Ev("invoke", Adapters[i + 1], "", Null)>>)

\* no try/catch around the body: fetchLyrics rejects
FetchLyricsCatchMissing(x) == x

\* try { ... } catch (e) { return null; } around the body of fetchLyrics
FetchLyricsCatch(x) == IF x.rejected THEN [x EXCEPT !.rejected = FALSE] ELSE x

\* fetchLyrics called by the handler invocation inv
FetchLyricsStart(inv) ==
  FetchLyricsCatch(
    FetchLyricsFrom(inv, 1, AdapterStart(inv, 1),
                    <<Ev("start", inv.track, "", Some([mmKey |-> inv.mmKey, genKey |-> inv.genKey])),
                      Ev("invoke", Adapters[1], "", Null)>>))

\* fetchLyrics resumed when the call inv waits for ends with r
FetchLyricsResume(inv, r) ==
  FetchLyricsCatch(
    FetchLyricsFrom(inv, AdapterIndex(AdapterOfCall(inv.stage)), AdapterResume(inv, r),
                    <<Ev("response", inv.stage, ResponseClass(r), Null)>>))

\* the last entry of the history of a call that is over
Outcome(out) ==
  IF ~out.done THEN <<>>
  ELSE IF out.rejected THEN <<Ev("reject", "fetchLyrics", "", Null)>>
  ELSE <<Ev("resolve", "fetchLyrics", "", out.result)>>

\* The history of the observed fetchLyrics call: the track and the keys it
\* was called with, the adapters invoked so far and what each one that is over
\* resolved to ("rejected" if it rejected, caught if its outermost catch
\* block made the result), the fetches of the adapter invoked last with how
\* each ended ("refused" if it reached no server), the number of network
\* calls of all adapters, and how fetchLyrics ended.
NoHistory ==
  [track |-> "", mmKey |-> Null, genKey |-> Null, invoked |-> <<>>, yields |-> <<>>,
   calls |-> <<>>, total |-> 0, outcome |-> "none", result |-> Null]

Record1(h, ev) ==
  CASE ev.e = "start" ->
         [NoHistory EXCEPT !.track = ev.who, !.mmKey = Get(ev.res).mmKey,
                           !.genKey = Get(ev.res).genKey, !.outcome = "pending"]
    [] ev.e = "invoke" -> [h EXCEPT !.invoked = Append(@, ev.who), !.calls = <<>>]
    [] ev.e = "call" ->
         [h EXCEPT !.calls = Append(@, [call |-> ev.who, class |-> "inflight"]),
                   !.total = @ + 1]
    [] ev.e = "refused" ->
         [h EXCEPT !.calls = Append(@, [call |-> ev.who, class |-> "refused"])]
    [] ev.e = "response" -> [h EXCEPT !.calls[Len(h.calls)].class = ev.class]
    [] ev.e = "return" -> [h EXCEPT !.yields = Append(@, [k |-> "returned", res |-> ev.res,
                                          caught |-> ev.class = "caught"])]
    [] ev.e = "reject" /\ ev.who # "fetchLyrics" ->
         [h EXCEPT !.yields = Append(@, [k |-> "rejected", res |-> Null, caught |-> FALSE])]
    [] ev.e = "reject" -> [h EXCEPT !.outcome = "rejected"]
    [] OTHER -> [h EXCEPT !.outcome = "resolved", !.result = ev.res]

RECURSIVE Recorded(_, _)
Recorded(h, events) ==
  IF events = <<>> THEN h ELSE Recorded(Record1(h, Head(events)), Tail(events))

\* ------------------------------------------------------------------ handlers

\* ------------------------------------------------------------------ display settings and colours

\* a colour text: "#rrggbb", "rgb(r,g,b)", or the text "rgb(NaN,NaN,NaN)"
\* that a colour with NaN channels formats to
Hex(r, g, b) == [fmt |-> "#", r |-> r, g |-> g, b |-> b]
Rgb(r, g, b) == [fmt |-> "rgb", r |-> r, g |-> g, b |-> b]
RgbNaN == [fmt |-> "rgb(NaN)", r |-> 0, g |-> 0, b |-> 0]

\* DEFAULT_COLORS
DEFAULT_COLORS ==
  [line |-> Hex(250, 250, 250), background |-> Rgb(0, 0, 0),
   primary |-> Hex(37, 217, 192), secondary |-> Hex(255, 244, 224)]

\* a {r, g, b} object; nan marks channels that are NaN
Pixel(r, g, b) == [nan |-> FALSE, r |-> r, g |-> g, b |-> b]
NaNColor == [nan |-> TRUE, r |-> 0, g |-> 0, b |-> 0]

\* the recursion depth of quantization
MAX_DEPTH == 4

RECURSIVE SumOf(_, _)
SumOf(rgbValues, c) ==
  IF Len(rgbValues) = 0 THEN 0 ELSE Head(rgbValues)[c] + SumOf(Tail(rgbValues), c)

\* Math.round(sum / length), NaN for no values
AverageColor(rgbValues) ==
  LET n == Len(rgbValues)
      Round(sum) == (2 * sum + n) \div (2 * n)
  IN IF n = 0 THEN NaNColor
     ELSE Pixel(Round(SumOf(rgbValues, "r")), Round(SumOf(rgbValues, "g")),
                Round(SumOf(rgbValues, "b")))

\* findBiggestColorRange(rgbValues), for channels above 0
FindBiggestColorRange(rgbValues) ==
  LET Values(c) == {rgbValues[i][c] : i \in 1..Len(rgbValues)}
      Largest(S) == CHOOSE x \in S : \A y \in S : y <= x
      Smallest(S) == CHOOSE x \in S : \A y \in S : x <= y
      Range(c) == Largest(Values(c)) - Smallest(Values(c))
      biggestRange == Largest({Range("r"), Range("g"), Range("b")})
  IN IF biggestRange = Range("r") THEN "r"
     ELSE IF biggestRange = Range("g") THEN "g" ELSE "b"

\* one value put into a sorted array behind the values that are not larger
RECURSIVE InsertByComponent(_, _, _)
InsertByComponent(sorted, p, c) ==
  IF Len(sorted) = 0 THEN <<p>>
  ELSE IF Head(sorted)[c] <= p[c]
  THEN <<Head(sorted)>> \o InsertByComponent(Tail(sorted), p, c)
  ELSE <<p>> \o sorted

\* rgbValues.sort((p1, p2) => p1[c] - p2[c]), a stable sort
RECURSIVE SortByComponent(_, _)
SortByComponent(rgbValues, c) ==
  IF Len(rgbValues) = 0 THEN <<>>
  ELSE InsertByComponent(SortByComponent(SubSeq(rgbValues, 1, Len(rgbValues) - 1), c),
                         rgbValues[Len(rgbValues)], c)

\* quantization(rgbValues, depth): slice(0, mid) and slice(mid + 1) round
\* mid = length / 2 down, and the value at the middle is dropped
RECURSIVE Quantization(_, _)
Quantization(rgbValues, depth) ==
  IF depth = MAX_DEPTH \/ Len(rgbValues) = 0 THEN <<AverageColor(rgbValues)>>
  ELSE LET sorted == SortByComponent(rgbValues, FindBiggestColorRange(rgbValues))
           mid == Len(sorted) \div 2
       IN Quantization(SubSeq(sorted, 1, mid), depth + 1)
          \o Quantization(SubSeq(sorted, mid + 2, Len(sorted)), depth + 1)

\* the pictures of the thumbnails: one of a single pixel, one of 24 pixels
TinyThumbnail == <<Pixel(90, 60, 30)>>
RegularThumbnail == [i \in 1..24 |-> Pixel(10 * i, 100, 200)]
Thumbnails == {TinyThumbnail, RegularThumbnail}

\* a dark colour is made lighter; a comparison with NaN is false
Lighter(color) ==
  IF ~color.nan /\ (color.r < 120 \/ color.g < 120 \/ color.b < 120)
  THEN Pixel(color.r + 100, color.g + 100, color.b + 100)
  ELSE color

\* `rgb(${color.r},${color.g},${color.b})`
RgbText(color) == IF color.nan THEN RgbNaN ELSE Rgb(color.r, color.g, color.b)

\* whether CanvasGradient.addColorStop takes the text as a colour; it throws
\* a SyntaxError for a text that is no colour
ParsesAsColor(text) == text.fmt # "rgb(NaN)"

\* the pixel at the middle of a canvas filled with the gradient from primary
\* (top) to secondary (bottom); channels above 255 are 255 in a colour
SampledRgb(primary, secondary) ==
  LET Clamp(x) == IF x > 255 THEN 255 ELSE x
      Mid(c) == (Clamp(primary[c]) + Clamp(secondary[c])) \div 2
  IN Rgb(Mid("r"), Mid("g"), Mid("b"))

\* getContrastingColor(rgbColor)
GetContrastingColor(rgbColor) ==
  IF 299 * rgbColor.r + 587 * rgbColor.g + 114 * rgbColor.b > 127500
  THEN Hex(34, 34, 34) ELSE Hex(250, 250, 250)

\* setDynamicColors(state): the state it leaves, and whether addColorStop
\* threw, which ends the function and its caller where they are
SetDynamicColors(s) ==
  LET sampled ==
        IF s.quantColors # Null /\ (s.useDynamicBackground \/ s.useDynamicColors)
        THEN [s EXCEPT !.primaryColor = RgbText(Lighter(Get(s.quantColors)[1])),
                       !.secondaryColor = RgbText(Lighter(Get(s.quantColors)[2]))]
        ELSE s
      throws == /\ sampled.useDynamicBackground
                /\ ~(ParsesAsColor(sampled.primaryColor) /\ ParsesAsColor(sampled.secondaryColor))
      background ==
        IF sampled.useDynamicBackground
        THEN LET sampledRgb == SampledRgb(sampled.primaryColor, sampled.secondaryColor)
             IN [sampled EXCEPT !.backgroundColor = sampledRgb,
                                !.lineColor = GetContrastingColor(sampledRgb)]
        ELSE [sampled EXCEPT !.backgroundColor = sampled.defaultBackgroundColor,
                             !.lineColor = sampled.defaultLineColor]
      colors ==
        IF ~background.useDynamicColors
        THEN [background EXCEPT !.primaryColor = background.defaultPrimaryColor,
                                !.secondaryColor = background.defaultSecondaryColor]
        ELSE background
  IN IF throws THEN [state |-> sampled, threw |-> TRUE]
     ELSE [state |-> colors, threw |-> FALSE]

\* the display settings and colours of the state object
StateColors ==
  [displayMusicArt |-> TRUE,
   useFilter |-> TRUE, useDynamicColors |-> TRUE, useDynamicBackground |-> TRUE,
   tempUsefilter |-> TRUE, tempUseDynamicBackground |-> TRUE,
   tempUseDynamicColors |-> TRUE,
   defaultLineColor |-> DEFAULT_COLORS.line,
   defaultBackgroundColor |-> DEFAULT_COLORS.background,
   defaultPrimaryColor |-> DEFAULT_COLORS.primary,
   defaultSecondaryColor |-> DEFAULT_COLORS.secondary,
   backgroundColor |-> DEFAULT_COLORS.background,
   lineColor |-> DEFAULT_COLORS.line,
   primaryColor |-> DEFAULT_COLORS.primary,
   secondaryColor |-> DEFAULT_COLORS.secondary,
   quantColors |-> Null]

\* initializeApp: the first setDynamicColors(state)
LoadColors == SetDynamicColors(StateColors).state

\* case "displayMusicArt"
DisplayMusicArtCase(s, val) ==
  LET shown1 == [s EXCEPT !.displayMusicArt = val]
  IN SetDynamicColors(
       IF ~shown1.displayMusicArt
       THEN [shown1 EXCEPT !.backgroundColor = s.defaultBackgroundColor,
                           !.lineColor = s.defaultLineColor,
                           !.primaryColor = s.defaultPrimaryColor,
                           !.secondaryColor = s.defaultSecondaryColor,
                           !.useFilter = FALSE,
                           !.useDynamicBackground = FALSE,
                           !.useDynamicColors = FALSE]
       ELSE [shown1 EXCEPT !.useDynamicBackground = s.tempUseDynamicBackground,
                           !.useDynamicColors = s.tempUseDynamicColors,
                           !.useFilter = s.tempUsefilter]).state

\* the filter choice reaches the effective flag with the album art off too
FilterCaseAnyArt(s, val) == [s EXCEPT !.tempUsefilter = val, !.useFilter = val]

\* case "filter"
FilterCase(s, val) ==
  IF s.displayMusicArt THEN [s EXCEPT !.tempUsefilter = val, !.useFilter = val]
  ELSE [s EXCEPT !.tempUsefilter = val]

\* case "dynamicBackground"
DynamicBackgroundCase(s, val) ==
  SetDynamicColors(
    IF s.displayMusicArt
    THEN [s EXCEPT !.tempUseDynamicBackground = val, !.useDynamicBackground = val]
    ELSE [s EXCEPT !.tempUseDynamicBackground = val,
                   !.backgroundColor = s.defaultBackgroundColor,
                   !.lineColor = s.defaultLineColor]).state

\* case "useDynamicColors"
UseDynamicColorsCase(s, val) ==
  SetDynamicColors(
    IF s.displayMusicArt
    THEN [s EXCEPT !.tempUseDynamicColors = val, !.useDynamicColors = val]
    ELSE [s EXCEPT !.tempUseDynamicColors = val,
                   !.primaryColor = s.defaultPrimaryColor,
                   !.secondaryColor = s.defaultSecondaryColor]).state

\* case "backgroundColor"
BackgroundColorCase(s, val) ==
  IF ~s.useDynamicBackground
  THEN [s EXCEPT !.defaultBackgroundColor = val, !.backgroundColor = val]
  ELSE [s EXCEPT !.defaultBackgroundColor = val]

\* case "lineColor"
LineColorCase(s, val) ==
  IF ~s.useDynamicBackground
  THEN SetDynamicColors([s EXCEPT !.defaultLineColor = val, !.lineColor = val]).state
  ELSE [s EXCEPT !.defaultLineColor = val]

\* case "primaryColor"
PrimaryColorCase(s, val) ==
  IF ~s.useDynamicColors
  THEN [s EXCEPT !.defaultPrimaryColor = val, !.primaryColor = val]
  ELSE [s EXCEPT !.defaultPrimaryColor = val]

\* case "secondaryColor"
SecondaryColorCase(s, val) ==
  IF ~s.useDynamicColors
  THEN [s EXCEPT !.defaultSecondaryColor = val, !.secondaryColor = val]
  ELSE [s EXCEPT !.defaultSecondaryColor = val]

\* the properties of the display, and the values the host passes for each:
\* a checkbox passes a boolean, a colour picker a colour
FlagProperties == {"displayMusicArt", "filter", "dynamicBackground", "useDynamicColors"}
ColorProperties == {"backgroundColor", "lineColor", "primaryColor", "secondaryColor"}
PickedColors == {Hex(16, 32, 48)}
PropertyValues(name) ==
  IF name \in FlagProperties THEN BOOLEAN
  ELSE IF name \in ColorProperties THEN PickedColors
  ELSE {50}

\* livelyPropertyListener(name, val), the cases of the display
DisplayPropertyEvent(name, val) ==
  /\ name \in FlagProperties \cup ColorProperties \cup {"filterPower"}
  /\ val \in PropertyValues(name)
  /\ settings' =
       CASE name = "displayMusicArt" -> DisplayMusicArtCase(settings, val)
         [] name = "filter" -> FilterCase(settings, val)
         [] name = "filterPower" -> SetDynamicColors(settings).state
         [] name = "dynamicBackground" -> DynamicBackgroundCase(settings, val)
         [] name = "backgroundColor" -> BackgroundColorCase(settings, val)
         [] name = "lineColor" -> LineColorCase(settings, val)
         [] name = "useDynamicColors" -> UseDynamicColorsCase(settings, val)
         [] name = "primaryColor" -> PrimaryColorCase(settings, val)
         [] name = "secondaryColor" -> SecondaryColorCase(settings, val)
  /\ UNCHANGED <<currentLyrics, lyricsSource, lyricsType, currentPosition,
                 musixmatchKey, geniusKey, trackTitle, container, pending, threw,
                 trace, shown, payload, lyricsArray, canvas, search, formatted, images>>

\* the album art part of livelyCurrentTrack for a track with the thumbnail
\* thumb (Null for none): the picture starts to load, or the palette is
\* dropped and the colours are set again
AlbumArt(d, thumb) ==
  IF d.obj = "track" /\ thumb # Null /\ settings.displayMusicArt
  THEN [state |-> settings, images |-> images \cup {Get(thumb)}, threw |-> FALSE]
  ELSE LET out == SetDynamicColors([settings EXCEPT !.quantColors = Null])
       IN [state |-> out.state, images |-> images, threw |-> out.threw]

\* newImg.onload of livelyCurrentTrack: the palette of the loaded picture is
\* stored and the colours are set again
ImageLoaded(thumb) ==
  /\ thumb \in images
  /\ images' = images \ {thumb}
  /\ settings' = SetDynamicColors([settings EXCEPT
                     !.quantColors = Some(Quantization(thumb, 0))]).state
  /\ UNCHANGED <<currentLyrics, lyricsSource, lyricsType, currentPosition,
                 musixmatchKey, geniusKey, trackTitle, container, pending, threw,
                 trace, shown, payload, lyricsArray, canvas, search, formatted>>

\* what the host passes to window.livelyCurrentTrack: nothing ("none"), the
\* JSON of null ("null"), or the JSON of a track
NoData == [obj |-> "none", title |-> Null, artist |-> FALSE, position |-> Null, progress |-> Null]
NullTrack == [obj |-> "null", title |-> Null, artist |-> FALSE, position |-> Null, progress |-> Null]
HostData ==
  {NoData, NullTrack} \cup
  [obj : {"track"}, title : {Null} \cup {Some(t) : t \in Tracks}, artist : BOOLEAN,
   position : {Null, Some(7500)}, progress : {Null, Some(3000)}]

\* milliseconds / 1000, in hundredths of a second
SecondsOf(ms) == ms \div 10

\* the position window.livelyCurrentTrack stores before it calls the handler
HostPosition(d) ==
  IF d.obj = "track" /\ d.position # Null THEN SecondsOf(Get(d.position))
  ELSE IF d.obj = "track" /\ d.progress # Null THEN SecondsOf(Get(d.progress))
  ELSE currentPosition

\* obj.Title && obj.Artist
StartsFetch(d) == d.obj = "track" /\ d.title # Null /\ d.artist

Invocation(d) ==
  [track |-> Get(d.title), mmKey |-> musixmatchKey, genKey |-> geniusKey,
   stage |-> "BL", timer |-> "armed"]

\* the source and the type are left as the reset made them
InstallTimelineOnly(res) ==
  /\ currentLyrics' = Some(res.parsedLyrics)
  /\ UNCHANGED <<lyricsSource, lyricsType>>

\* the result's segments are appended to the installed ones
InstallAppended(res) ==
  /\ currentLyrics' = Some((IF currentLyrics = Null THEN <<>> ELSE Get(currentLyrics))
                             \o res.parsedLyrics)
  /\ lyricsSource' = res.source
  /\ lyricsType' = res.displayType

\* state.currentLyrics, lyricsSource and lyricsType take the result's values
Install(res) ==
  /\ currentLyrics' = Some(res.parsedLyrics)
  /\ lyricsSource' = res.source
  /\ lyricsType' = res.displayType

\* a fetch without lyrics resets the lyrics state as a null track does
CommitClearsWhenAbsent(out) ==
  IF out.rejected
  THEN /\ container' = Message("error")
       /\ UNCHANGED <<currentLyrics, lyricsSource, lyricsType>>
  ELSE IF out.result # Null /\ Len(Get(out.result).parsedLyrics) > 0
  THEN LET res == Get(out.result)
           u == UpdateLyricsSync(currentPosition, Some(res.parsedLyrics),
                                 res.source, res.displayType, container)
       IN /\ Install(res)
          /\ container' = IF u.threw THEN Message("error") ELSE u.view
  ELSE /\ container' = Message("nolyrics")
       /\ currentLyrics' = Null
       /\ lyricsSource' = ""
       /\ lyricsType' = "line"

\* the handler after `await fetchLyrics(...)`: the result is installed and
\* shown, or the container says that there is none; a throw of fetchLyrics or
\* of updateLyricsSync ends in the handler's catch
Commit(out) ==
  IF out.rejected
  THEN /\ container' = Message("error")
       /\ UNCHANGED <<currentLyrics, lyricsSource, lyricsType>>
  ELSE IF out.result # Null /\ Len(Get(out.result).parsedLyrics) > 0
  THEN LET res == Get(out.result)
           u == UpdateLyricsSync(currentPosition, Some(res.parsedLyrics),
                                 res.source, res.displayType, container)
       IN /\ Install(res)
          /\ container' = IF u.threw THEN Message("error") ELSE u.view
  ELSE /\ container' = Message("nolyrics")
       /\ UNCHANGED <<currentLyrics, lyricsSource, lyricsType>>

\* window.livelyCurrentTrack(data) and the synchronous part of
\* livelyCurrentTrack for data whose track has the thumbnail thumb (Null for
\* none): the position is stored, the album art is handled, the lyrics state
\* is reset and, for a track with a title and an artist, fetchLyrics is called
\* and suspends in the first adapter's call.  An exception of setDynamicColors
\* ends the handler before the lyrics.  With observed, the history follows
\* this fetch.
TrackEventWith(d, observed, thumb) ==
  /\ d \in HostData
  /\ thumb # Null => (d.obj = "track" /\ Get(thumb) \in Thumbnails \ images)
  /\ StartsFetch(d) => BagCardinality(pending) < MaxInFlight
  /\ StartsFetch(d) /\ observed => pending = EmptyBag
  /\ IF d.obj = "none" THEN UNCHANGED vars
     ELSE IF AlbumArt(d, thumb).threw
     THEN /\ currentPosition' = HostPosition(d)
          /\ settings' = AlbumArt(d, thumb).state
          /\ images' = AlbumArt(d, thumb).images
          /\ UNCHANGED <<currentLyrics, lyricsSource, lyricsType, musixmatchKey,
                 geniusKey, trackTitle, container, pending, threw, trace, shown,
                 payload, lyricsArray, canvas, search, formatted>>
     ELSE IF d.obj = "null"
     THEN /\ currentPosition' = HostPosition(d)
          /\ settings' = AlbumArt(d, thumb).state
          /\ images' = AlbumArt(d, thumb).images
          /\ trackTitle' = ""
          /\ container' = EmptyView
          /\ currentLyrics' = Null
          /\ lyricsSource' = ""
          /\ lyricsType' = "line"
          /\ UNCHANGED <<musixmatchKey, geniusKey, pending, threw, trace, shown,
                 payload, lyricsArray, canvas, search, formatted>>
     ELSE /\ settings' = AlbumArt(d, thumb).state
          /\ images' = AlbumArt(d, thumb).images
          /\ trackTitle' = IF d.title = Null THEN "undefined" ELSE Get(d.title)
          /\ currentLyrics' = Null
          /\ lyricsSource' = "Loading..."
          /\ lyricsType' = "line"
          /\ currentPosition' = 0
          /\ container' = Message("searching")
          /\ IF StartsFetch(d)
             THEN LET out == FetchLyricsStart(Invocation(d)) IN
                  /\ pending' = pending (+) SetToBag({[Invocation(d) EXCEPT
                                   !.stage = out.stage, !.timer = out.timer]})
                  /\ trace' = IF observed THEN Recorded(NoHistory, out.events) ELSE trace
             ELSE UNCHANGED <<pending, trace>>
          /\ UNCHANGED <<musixmatchKey, geniusKey, threw, shown,
                 payload, lyricsArray, canvas, search, formatted>>

\* the same for data whose track has no thumbnail
TrackEvent(d, observed) == TrackEventWith(d, observed, Null)

\* fetchLyrics notes in state.lyricsSource which provider it is asking
ContinueWritesSource(inv, r, observed) ==
  LET out == FetchLyricsResume(inv, r)
      rest == pending (-) SetToBag({inv})
  IN /\ pending' = IF out.done THEN rest
                   ELSE rest (+) SetToBag({[inv EXCEPT !.stage = out.stage,
                                                      !.timer = out.timer]})
     /\ IF out.done THEN Commit(out)
        ELSE /\ lyricsSource' = AdapterOfCall(out.stage)
             /\ UNCHANGED <<currentLyrics, lyricsType, container>>
     /\ trace' = IF observed THEN Recorded(trace, out.events \o Outcome(out)) ELSE trace
     /\ UNCHANGED <<currentPosition, musixmatchKey, geniusKey, trackTitle, threw, shown,
                    payload, lyricsArray, canvas, search, formatted, settings, images>>

\* the suspended invocation inv continues with the end r of its call, up to
\* the next call or through the rest of the handler
Continue(inv, r, observed) ==
  LET out == FetchLyricsResume(inv, r)
      rest == pending (-) SetToBag({inv})
  IN /\ pending' = IF out.done THEN rest
                   ELSE rest (+) SetToBag({[inv EXCEPT !.stage = out.stage,
                                                      !.timer = out.timer]})
     /\ IF out.done THEN Commit(out)
        ELSE UNCHANGED <<currentLyrics, lyricsSource, lyricsType, container>>
     /\ trace' = IF observed THEN Recorded(trace, out.events \o Outcome(out)) ELSE trace
     /\ UNCHANGED <<currentPosition, musixmatchKey, geniusKey, trackTitle, threw, shown,
                 payload, lyricsArray, canvas, search, formatted, settings, images>>

\* a network call ends
Respond(inv, r, observed) ==
  /\ inv \in BagToSet(pending)
  /\ r \in Responses(inv.stage)
  /\ Continue(inv, r, observed)

\* setTimeout(() => controller.abort(), ...) fires before clearTimeout: the
\* call in flight rejects
Timeout(inv, observed) ==
  /\ inv \in BagToSet(pending)
  /\ inv.timer = "armed"
  /\ Continue(inv, "abort", observed)

\* Array.prototype.reverse of an array
Reverse(seq) == [i \in 1..Len(seq) |-> seq[Len(seq) + 1 - i]]

\* state.currentLyrics.reverse() without the copy: the timeline is reversed
\* in place by every frame
UpdateLoopReversesInPlace ==
  IF currentLyrics # Null /\ Len(Get(currentLyrics)) > 0
  THEN LET u == UpdateLyricsSync(currentPosition, currentLyrics, lyricsSource,
                                 lyricsType, container)
       IN /\ container' = u.view
          /\ threw' = (threw \/ u.threw)
          /\ currentLyrics' = Some(Reverse(Get(currentLyrics)))
          /\ UNCHANGED <<lyricsSource, lyricsType, currentPosition,
                         musixmatchKey, geniusKey, trackTitle, pending, trace, shown,
                         payload, lyricsArray, canvas, search, formatted, settings, images>>
  ELSE UNCHANGED vars

\* updateLoop: one animation frame
UpdateLoop ==
  IF currentLyrics # Null /\ Len(Get(currentLyrics)) > 0
  THEN LET u == UpdateLyricsSync(currentPosition, currentLyrics, lyricsSource,
                                 lyricsType, container)
       IN /\ container' = u.view
          /\ threw' = (threw \/ u.threw)
          /\ UNCHANGED <<currentLyrics, lyricsSource, lyricsType, currentPosition,
                         musixmatchKey, geniusKey, trackTitle, pending, trace, shown,
                 payload, lyricsArray, canvas, search, formatted, settings, images>>
  ELSE UNCHANGED vars

\* the values a key property takes: the empty string or a key
KeyValues == {"", "key"}

\* val || null
OrNull(val) == IF val = "" THEN Null ELSE Some(val)

\* livelyPropertyListener("musixmatchKey", val) and ("geniusKey", val)
PropertyEvent(name, val) ==
  /\ name \in {"musixmatchKey", "geniusKey"}
  /\ val \in KeyValues
  /\ musixmatchKey' = IF name = "musixmatchKey" THEN OrNull(val) ELSE musixmatchKey
  /\ geniusKey' = IF name = "geniusKey" THEN OrNull(val) ELSE geniusKey
  /\ UNCHANGED <<currentLyrics, lyricsSource, lyricsType, currentPosition,
                 trackTitle, container, pending, threw, trace, shown,
                 payload, lyricsArray, canvas, search, formatted, settings, images>>

\* render(state, lines, img): the canvas takes the size of the window; the
\* lyrics state is read by nothing in it
Render(window) == canvas' = [width |-> window.w, height |-> window.h]

\* the debounced resize handler of initializeApp
Resize(window) ==
  /\ window \in WindowSizes
  /\ Render(window)
  /\ UNCHANGED <<currentLyrics, lyricsSource, lyricsType, currentPosition,
                 musixmatchKey, geniusKey, trackTitle, container, pending, threw,
                 trace, shown, payload, lyricsArray, search, formatted, settings, images>>

\* ------------------------------------------------------------------ specifications

\* the state object of the main module, which has no lyricsType property, and
\* no invocation suspended
Init ==
  /\ currentLyrics = Null
  /\ lyricsSource = ""
  /\ lyricsType = "undefined"
  /\ currentPosition = 0
  /\ musixmatchKey = Null
  /\ geniusKey = Null
  /\ trackTitle = ""
  /\ container = EmptyView
  /\ pending = EmptyBag
  /\ threw = FALSE
  /\ trace = NoHistory
  /\ shown = Null
  /\ payload = Absent
  /\ lyricsArray = Null
  /\ canvas = LoadSize
  /\ search = NoSearch
  /\ formatted = Null
  /\ settings = LoadColors
  /\ images = {}

\* the state after both key properties were set
InitKeys ==
  /\ currentLyrics = Null
  /\ lyricsSource = ""
  /\ lyricsType = "undefined"
  /\ currentPosition = 0
  /\ musixmatchKey = Some("key")
  /\ geniusKey = Some("key")
  /\ trackTitle = ""
  /\ container = EmptyView
  /\ pending = EmptyBag
  /\ threw = FALSE
  /\ trace = NoHistory
  /\ shown = Null
  /\ payload = Absent
  /\ lyricsArray = Null
  /\ canvas = LoadSize
  /\ search = NoSearch
  /\ formatted = Null
  /\ settings = LoadColors
  /\ images = {}

\* Track events arrive at any time, also while earlier invocations of the
\* handler are suspended; the keys stay as set.
Next ==
  \/ \E d \in HostData : TrackEvent(d, FALSE)
  \/ \E inv \in BagToSet(pending) : \E r \in Responses(inv.stage) : Respond(inv, r, FALSE)
  \/ \E inv \in BagToSet(pending) : Timeout(inv, FALSE)
  \/ UpdateLoop

Spec == InitKeys /\ [][Next]_vars

\* the host data of the specification of one fetch: one track, no positions
ChainData ==
  {d \in HostData : d.title # Some("Y") /\ d.position = Null /\ d.progress = Null}

\* One fetch at a time, with its history; the keys change at any time.
NextChain ==
  \/ \E d \in ChainData : TrackEvent(d, TRUE)
  \/ \E inv \in BagToSet(pending) : \E r \in Responses(inv.stage) : Respond(inv, r, TRUE)
  \/ \E inv \in BagToSet(pending) : Timeout(inv, TRUE)
  \/ UpdateLoop
  \/ \E name \in {"musixmatchKey", "geniusKey"} : \E val \in KeyValues : PropertyEvent(name, val)

SpecChain == Init /\ [][NextChain]_vars

\* the longest payload of the cursor's specification, in lines
MaxCursorLines == 5

\* lines at 0 s, 2 s and twice 5 s, one with word tags (the word "d" at
\* 5.5 s, the word "e" at 1 s, before its line)
CursorLines ==
  {TimedLine(0, 0, 0, 2, <<TextPart("a")>>),
   TimedLine(0, 2, 0, 2, <<TextPart("b")>>),
   TimedLine(0, 5, 0, 2, <<TextPart("c")>>),
   TimedLine(0, 5, 0, 2, <<TsPart(0, 5, 50, 2), TextPart("d"),
                           TsPart(0, 1, 0, 2), TextPart("e")>>)}

\* what parseEnhancedLRC makes of the payloads of up to MaxCursorLines lines
CursorTimelines ==
  {ParseEnhancedLRC(Text(ls)) :
     ls \in UNION {[1..n -> CursorLines] : n \in 0..MaxCursorLines}}

\* positions before, at, between and after the start times
CursorPositions == {-100, 0, 250, 500, 750, 1200}

\* any timeline, absent and empty included, at any position
InitCursor ==
  /\ currentLyrics \in {Null} \cup {Some(tl) : tl \in CursorTimelines}
  /\ currentPosition \in CursorPositions
  /\ \E a \in {"Better Lyrics", "Musixmatch", "LRClib"} :
       /\ lyricsSource = a
       /\ lyricsType = (CASE a = "Better Lyrics" -> "syllable"
                          [] a = "Musixmatch" -> "word"
                          [] OTHER -> "line")
  /\ musixmatchKey = Null
  /\ geniusKey = Null
  /\ trackTitle = "X"
  /\ container = EmptyView
  /\ pending = EmptyBag
  /\ threw = FALSE
  /\ trace = NoHistory
  /\ shown = Null
  /\ payload = Absent
  /\ lyricsArray = Null
  /\ canvas = LoadSize
  /\ search = NoSearch
  /\ formatted = Null
  /\ settings = LoadColors
  /\ images = {}

\* updateLyricsSync(state.currentPosition, state) called on the state as it is
CursorCall ==
  LET u == UpdateLyricsSync(currentPosition, currentLyrics, lyricsSource,
                            lyricsType, container)
  IN /\ container' = u.view
     /\ threw' = (threw \/ u.threw)
     /\ shown' = Some(currentPosition)
     /\ UNCHANGED <<currentLyrics, lyricsSource, lyricsType, currentPosition,
                    musixmatchKey, geniusKey, trackTitle, pending, trace,
                    payload, lyricsArray, canvas, search, formatted, settings, images>>

NextCursor == CursorCall

SpecCursor == InitCursor /\ [][NextCursor]_vars

\* updateLyricsSync(currentTime, state) called with any position
CursorCallAt(currentTime) ==
  LET u == UpdateLyricsSync(currentTime, currentLyrics, lyricsSource,
                            lyricsType, container)
  IN /\ currentTime \in CursorPositions
     /\ container' = u.view
     /\ threw' = (threw \/ u.threw)
     /\ shown' = Some(currentTime)
     /\ UNCHANGED <<currentLyrics, lyricsSource, lyricsType, currentPosition,
                    musixmatchKey, geniusKey, trackTitle, pending, trace,
                    payload, lyricsArray, canvas, search, formatted, settings, images>>

NextSeek == \E currentTime \in CursorPositions : CursorCallAt(currentTime)

\* the cursor called again and again on one timeline, the position moving
\* either way
SpecSeek == InitCursor /\ [][NextSeek]_vars

\* the longest payload of the parser's specification, in lines
MaxParseLines == 3

\* the lines of the parser's payloads:
\*   [00:00.00] <00:00.01>Testing <00:00.50>the <00:01.00>syllable
\*   [00:02.00]b        [00:01.50]c        [00:01.500]d       [00:02.30]
\*   [00:03.00]<b>e     [00:04.00]f<00:04.50> <i>g
\*   [00:06.00]<00:06.500>h                [00:07.0]i
\*   j                  (an empty line)
ParseLines ==
  {TimedLine(0, 0, 0, 2, <<TsPart(0, 0, 1, 2), TextPart("Testing "),
                           TsPart(0, 0, 50, 2), TextPart("the "),
                           TsPart(0, 1, 0, 2), TextPart("syllable")>>),
   TimedLine(0, 2, 0, 2, <<TextPart("b")>>),
   TimedLine(0, 1, 50, 2, <<TextPart("c")>>),
   TimedLine(0, 1, 500, 3, <<TextPart("d")>>),
   TimedLine(0, 2, 30, 2, <<>>),
   TimedLine(0, 3, 0, 2, <<TagPart("<b>"), TextPart("e")>>),
   TimedLine(0, 4, 0, 2, <<TextPart("f"), TsPart(0, 4, 50, 2), TextPart(" "),
                           TagPart("<i>"), TextPart("g")>>),
   TimedLine(0, 6, 0, 2, <<TsPart(0, 6, 500, 3), TextPart("h")>>),
   TimedLine(0, 7, 0, 1, <<TextPart("i")>>),
   PlainLine(<<TextPart("j")>>),
   PlainLine(<<>>)}

\* null or "", a value that is no string, and every text of 1 to
\* MaxParseLines lines
ParsePayloads ==
  {Absent, NonString} \cup
  {Text(ls) : ls \in UNION {[1..n -> ParseLines] : n \in 1..MaxParseLines}}

\* any payload, the parser not yet called
InitParse ==
  /\ payload \in ParsePayloads
  /\ lyricsArray = Null
  /\ canvas = LoadSize
  /\ search = NoSearch
  /\ formatted = Null
  /\ settings = LoadColors
  /\ images = {}
  /\ currentLyrics = Null
  /\ lyricsSource = ""
  /\ lyricsType = "undefined"
  /\ currentPosition = 0
  /\ musixmatchKey = Null
  /\ geniusKey = Null
  /\ trackTitle = ""
  /\ container = EmptyView
  /\ pending = EmptyBag
  /\ threw = FALSE
  /\ trace = NoHistory
  /\ shown = Null

\* parseEnhancedLRC(payload): the array it returns, or the throw
ParseCall ==
  /\ IF ParseThrows(payload)
     THEN /\ threw' = TRUE
          /\ UNCHANGED lyricsArray
     ELSE /\ lyricsArray' = Some(ParseEnhancedLRC(payload))
          /\ UNCHANGED threw
  /\ UNCHANGED <<currentLyrics, lyricsSource, lyricsType, currentPosition,
                 musixmatchKey, geniusKey, trackTitle, container, pending,
                 trace, shown, payload, canvas, search, formatted, settings, images>>

NextParse == ParseCall

SpecParse == InitParse /\ [][NextParse]_vars

\* overlapping fetches, animation frames and window resizes
NextFrame ==
  \/ Next
  \/ \E window \in WindowSizes : Resize(window)

SpecFrame == InitKeys /\ [][NextFrame]_vars

\* the longest artist name of the specification of formatSearch, in characters
MaxNameLen == 4

\* absent, empty, and every string of up to MaxNameLen letters, spaces and tabs
ArtistNames ==
  {Null} \cup
  {Some(str) : str \in UNION {[1..n -> {"a", "B", " ", "\t"}] : n \in 0..MaxNameLen}}

\* absent, empty, "B  a" and a tab, "a" and a tab
TitleNames ==
  {Null, Some(<<>>), Some(<<"B", " ", " ", "a">>), Some(<<"\t", "a", "\t">>)}

\* any artist and title, formatSearch not yet called
InitFormat ==
  /\ search \in [artist : ArtistNames, title : TitleNames]
  /\ formatted = Null
  /\ settings = LoadColors
  /\ images = {}
  /\ payload = Absent
  /\ lyricsArray = Null
  /\ canvas = LoadSize
  /\ currentLyrics = Null
  /\ lyricsSource = ""
  /\ lyricsType = "undefined"
  /\ currentPosition = 0
  /\ musixmatchKey = Null
  /\ geniusKey = Null
  /\ trackTitle = ""
  /\ container = EmptyView
  /\ pending = EmptyBag
  /\ threw = FALSE
  /\ trace = NoHistory
  /\ shown = Null

\* formatSearch(search.artist, search.title)
FormatCall ==
  /\ formatted' = Some(FormatSearch(search.artist, search.title))
  /\ UNCHANGED <<currentLyrics, lyricsSource, lyricsType, currentPosition,
                 musixmatchKey, geniusKey, trackTitle, container, pending, threw,
                 trace, shown, payload, lyricsArray, canvas, search, settings, images>>

NextFormat == FormatCall

SpecFormat == InitFormat /\ [][NextFormat]_vars

\* the state after the key properties were set, each to a key or to nothing
InitAnyKeys ==
  /\ currentLyrics = Null
  /\ lyricsSource = ""
  /\ lyricsType = "undefined"
  /\ currentPosition = 0
  /\ musixmatchKey \in {Null, Some("key")}
  /\ geniusKey \in {Null, Some("key")}
  /\ trackTitle = ""
  /\ container = EmptyView
  /\ pending = EmptyBag
  /\ threw = FALSE
  /\ trace = NoHistory
  /\ shown = Null
  /\ payload = Absent
  /\ lyricsArray = Null
  /\ canvas = LoadSize
  /\ search = NoSearch
  /\ formatted = Null
  /\ settings = LoadColors
  /\ images = {}

\* the host data that starts a fetch, or says that nothing is playing
FetchData == {d \in ChainData : StartsFetch(d)} \cup {NullTrack}

NextFetch ==
  \/ \E d \in FetchData : TrackEvent(d, TRUE)
  \/ \E inv \in BagToSet(pending) : \E r \in Responses(inv.stage) : Respond(inv, r, TRUE)
  \/ \E inv \in BagToSet(pending) : Timeout(inv, TRUE)

\* a network call in flight ends, by an answer, a failure or the abort timer:
\* the invocation that waited for it is over or waits for another call
CallEnds ==
  \E inv \in BagToSet(pending) :
    \E next \in {EmptyBag} \cup
                {SetToBag({[inv EXCEPT !.stage = stage, !.timer = timer]}) :
                   stage \in CallStages, timer \in {"armed", "cleared"}} :
      pending' = (pending (-) SetToBag({inv})) (+) next

\* One fetch at a time, with its history; no network call stays in flight
\* for ever.
SpecFetch == InitAnyKeys /\ [][NextFetch]_vars /\ WF_pending(CallEnds)

\* the host data of the specification of the display: no data of a track that
\* starts a fetch, no positions
DisplayData ==
  {d \in HostData : d.obj # "none" /\ d.title = Null /\ ~d.artist
                    /\ d.position = Null /\ d.progress = Null}

\* Property events of the display, track events with and without a thumbnail
\* and the loads of the thumbnails arrive in any order.
NextDisplay ==
  \/ \E name \in FlagProperties \cup ColorProperties \cup {"filterPower"} :
       \E val \in PropertyValues(name) : DisplayPropertyEvent(name, val)
  \/ \E d \in DisplayData : \E thumb \in {Null} \cup {Some(x) : x \in Thumbnails} :
       TrackEventWith(d, FALSE, thumb)
  \/ \E thumb \in Thumbnails : ImageLoaded(thumb)

SpecDisplay == Init /\ [][NextDisplay]_vars

\* ------------------------------------------------------------------ properties

\* the adapters that hold timed text, and the granularity of each
TimedAdapters == {"Better Lyrics", "Musixmatch", "LRClib"}
GranularityOf(a) ==
  CASE a = "Better Lyrics" -> "syllable"
    [] a = "Musixmatch" -> "word"
    [] OTHER -> "line"

\* the payload of a provider result parses to a non-empty timeline
Usable(y) ==
  /\ y.k = "returned"
  /\ HasLyrics(y.res)
  /\ ~ParseThrows(Get(y.res).lyrics)
  /\ Len(ParseEnhancedLRC(Get(y.res).lyrics)) > 0

\* an adapter completed with no payload or one that parses to nothing
Unusable(y) ==
  /\ y.k = "returned"
  /\ \/ ~HasLyrics(y.res)
     \/ /\ ~ParseThrows(Get(y.res).lyrics)
        /\ Len(ParseEnhancedLRC(Get(y.res).lyrics)) = 0

\* C1: track-change race.  After fetch A for track X and fetch B for track Y,
\* whatever the order of the two completions, the installed timeline and
\* source are those of the fetch for the track on display, never those of a
\* superseded fetch: an installed timeline is the parse of a payload for the
\* current track.
C1_LateResultDiscarded ==
  currentLyrics # Null =>
    \E a \in TimedAdapters :
      /\ currentLyrics = Some(ParseEnhancedLRC(TimedDoc(trackTitle, a)))
      /\ lyricsSource = a

\* C2: fetchLyrics invokes the adapters in the order Better Lyrics,
\* Musixmatch, LRClib, Genius; an adapter is invoked only after every adapter
\* before it completed with no payload or with a payload that parses to an
\* empty timeline; no adapter is invoked after one whose payload parses to a
\* non-empty timeline, and the source returned is that adapter.
C2_FallbackOrder ==
  LET n == Len(trace.invoked) IN
  /\ trace.invoked = SubSeq(Adapters, 1, n)
  /\ Len(trace.yields) \in {n, n - 1}
  /\ \A j \in 1..Len(trace.yields) : j < n => Unusable(trace.yields[j])
  /\ trace.outcome = "resolved" /\ trace.result # Null =>
       /\ Len(trace.yields) = n
       /\ Usable(trace.yields[n])
       /\ Get(trace.result).source = Adapters[n]

\* C2 witness: the first two adapters came back with nothing, the third won
\* and the fourth was not invoked
C2_Witness ==
  /\ trace.outcome = "resolved"
  /\ trace.result # Null
  /\ Get(trace.result).source = "LRClib"
  /\ trace.invoked = <<"Better Lyrics", "Musixmatch", "LRClib">>
  /\ trace.yields[1].res = Null
  /\ trace.yields[2].res = Null

\* C3: fetchLyrics never rejects, whatever the adapters' calls end with and
\* whatever the payload is: it resolves to null or to a result with a
\* non-empty parsedLyrics and the name of an adapter, and the handler never
\* reaches its error branch.
C3_FetchLyricsNeverRejects ==
  /\ trace.outcome # "rejected"
  /\ container.kind # "error"
  /\ trace.outcome = "resolved" /\ trace.result # Null =>
       /\ Len(Get(trace.result).parsedLyrics) > 0
       /\ \E i \in 1..Len(Adapters) : Get(trace.result).source = Adapters[i]

\* C3 witness: the parser threw on a payload that is no string, and
\* fetchLyrics resolved to null
C3_Witness ==
  /\ trace.outcome = "resolved"
  /\ trace.result = Null
  /\ \E i \in 1..Len(trace.yields) :
       /\ HasLyrics(trace.yields[i].res)
       /\ ParseThrows(Get(trace.yields[i].res).lyrics)

\* C4: fetchLyrics returns null exactly when no adapter yielded a payload
\* that parses to a non-empty timeline; a result has at least one segment,
\* and its source is the adapter that returned the payload its parsedLyrics
\* were parsed from.
C4_NullIffNothingUsable ==
  trace.outcome = "resolved" =>
    /\ trace.result = Null <=> \A i \in 1..Len(trace.yields) : ~Usable(trace.yields[i])
    /\ trace.result # Null =>
         LET res == Get(trace.result) IN
         /\ Len(res.parsedLyrics) >= 1
         /\ \E i \in 1..Len(trace.yields) :
              /\ trace.invoked[i] = res.source
              /\ trace.yields[i].res # Null
              /\ Get(trace.yields[i].res).source = res.source
              /\ Get(trace.yields[i].res).lyrics = res.lyrics
              /\ res.parsedLyrics = ParseEnhancedLRC(res.lyrics)

\* C4 witness: all four adapters were invoked, Genius returned its text, and
\* the result is null
C4_Witness ==
  /\ trace.outcome = "resolved"
  /\ trace.result = Null
  /\ Len(trace.yields) = 4
  /\ HasLyrics(trace.yields[4].res)

\* C5: every adapter resolves to null or to a result of its own and never
\* rejects, also when a call, the decoding of a body or a field access fails.
C5_AdaptersNeverReject ==
  \A i \in 1..Len(trace.yields) :
    /\ trace.yields[i].k = "returned"
    /\ trace.yields[i].res # Null => Get(trace.yields[i].res).source = trace.invoked[i]
    /\ trace.yields[i].caught => trace.yields[i].res = Null

\* C5 witness: a failure inside Better Lyrics reached its outermost catch
\* block and became null
C5_Witness ==
  /\ Len(trace.yields) >= 1
  /\ trace.yields[1].caught
  /\ trace.yields[1].res = Null

\* C6: whenever a call of an adapter is in flight, the adapter's abort timer
\* is still armed.
C6_CallsBoundedByTimer ==
  \A inv \in BagToSet(pending) : inv.timer = "armed"

\* the call that may be tried over a relay
DirectOf(call) ==
  CASE call = "BL_relay" -> "BL"
    [] call = "LRC1_relay" -> "LRC1"
    [] OTHER -> "LRC2"

\* C7: one invocation of an adapter issues at most 2 network calls for Better
\* Lyrics, 4 for LRClib and 1 for Musixmatch and for Genius, no call twice,
\* and a relay call only right after its direct call failed.
C7_BoundedRetry ==
  LET n == Len(trace.invoked)
      calls == trace.calls
  IN n > 0 =>
       /\ Len(calls) <= (CASE Adapters[n] = "Better Lyrics" -> 2
                           [] Adapters[n] = "LRClib" -> 4
                           [] OTHER -> 1)
       /\ \A i \in 1..Len(calls) :
            /\ AdapterOfCall(calls[i].call) = Adapters[n]
            /\ \A j \in 1..Len(calls) : i # j => calls[i].call # calls[j].call
            /\ IsRelay(calls[i].call) =>
                 /\ i > 1
                 /\ calls[i - 1].call = DirectOf(calls[i].call)
                 /\ calls[i - 1].class \in {"rejected", "notok", "garbled"}

\* C7 witness: LRClib made its four calls
C7_Witness ==
  /\ Len(trace.calls) = 4
  /\ trace.calls[4].call = "LRC2_relay"

\* C8: an adapter whose key is absent issues no call and returns null, and
\* the chain goes on with the next adapter; a key property set to the empty
\* string leaves the key absent.
C8_NoKeyNoCall ==
  /\ musixmatchKey # Some("") /\ geniusKey # Some("")
  /\ \A inv \in BagToSet(pending) :
       /\ inv.stage = "MM" => inv.mmKey # Null
       /\ inv.stage = "GEN" => inv.genKey # Null
  /\ \A i \in 1..Len(trace.calls) :
       /\ trace.calls[i].call = "MM" => trace.mmKey # Null
       /\ trace.calls[i].call = "GEN" => trace.genKey # Null
  /\ trace.mmKey = Null /\ Len(trace.invoked) >= 2 =>
       /\ trace.yields[2] = [k |-> "returned", res |-> Null, caught |-> FALSE]
       /\ Len(trace.invoked) >= 3
  /\ trace.genKey = Null /\ Len(trace.invoked) = 4 =>
       /\ trace.yields[4] = [k |-> "returned", res |-> Null, caught |-> FALSE]
       /\ trace.calls = <<>>
       /\ trace.outcome = "resolved"

\* C8 witness: a fetch without keys went through all four adapters while the
\* Musixmatch key was set
C8_Witness ==
  /\ trace.mmKey = Null
  /\ trace.genKey = Null
  /\ Len(trace.invoked) = 4
  /\ trace.total >= 2
  /\ musixmatchKey # Null

\* C9: an installed timeline is always paired with the source and the type
\* of the fetch result it came from, and what the cursor rendered names that
\* source: never "Loading...", never the empty source.
C9_InstalledTogether ==
  /\ currentLyrics # Null =>
       \E t \in Tracks : \E a \in TimedAdapters :
         /\ currentLyrics = Some(ParseEnhancedLRC(TimedDoc(t, a)))
         /\ lyricsSource = a
         /\ lyricsType = GranularityOf(a)
  /\ container.kind = "lines" =>
       /\ currentLyrics # Null
       /\ container.source = lyricsSource

\* C9 witness: a Musixmatch timeline is installed and shown while another
\* invocation is suspended
C9_Witness ==
  /\ currentLyrics # Null
  /\ lyricsSource = "Musixmatch"
  /\ lyricsType = "word"
  /\ container.kind = "lines"
  /\ pending # EmptyBag

\* C10: the cursor never throws; for an absent or empty timeline it shows
\* nothing; otherwise the active segment is the last one that has started
\* (startTime <= position < the next startTime), the first one for a position
\* before the first, the last one for a position past the end.
C10_ActiveSegment ==
  shown # Null =>
    /\ ~threw
    /\ (currentLyrics = Null \/ currentLyrics = Some(<<>>)) => container = EmptyView
    /\ currentLyrics # Null /\ currentLyrics # Some(<<>>) =>
         LET tl == Get(currentLyrics)
             p == Get(shown)
             i == container.activeIndex + 1
         IN /\ container.kind = "lines"
            /\ i \in 1..Len(tl)
            /\ p < tl[1].startTime => i = 1
            /\ p >= tl[Len(tl)].startTime => i = Len(tl)
            /\ p >= tl[1].startTime =>
                 /\ tl[i].startTime <= p
                 /\ i < Len(tl) => p < tl[i + 1].startTime

\* C10 witness: segments starting at 0 s and 5 s, position 7.5 s, index 1
C10_Witness ==
  /\ shown = Some(750)
  /\ currentLyrics # Null
  /\ Len(Get(currentLyrics)) = 2
  /\ Get(currentLyrics)[1].startTime = 0
  /\ Get(currentLyrics)[2].startTime = 500
  /\ container.activeIndex = 1

\* the lines of a text that start with a [MM:SS.ff] or [MM:SS.fff] tag
TimedLinesOf(text) ==
  SelectSeq(text.lines, LAMBDA l : l.lead /\ l.digits \in {2, 3})

\* every tag of the text that holds a time has a fraction of two digits
TwoDigitInput(text) ==
  /\ text.k = "text"
  /\ \A i \in 1..Len(text.lines) :
       LET l == text.lines[i] IN
       /\ l.lead => l.digits = 2
       /\ \A j \in 1..Len(l.parts) : l.parts[j].k = "ts" => l.parts[j].digits = 2

\* every line of the text is a [MM:SS.ff] tag and a body without any <...> tag
PlainTimedInput(text) ==
  /\ TwoDigitInput(text)
  /\ \A i \in 1..Len(text.lines) :
       LET l == text.lines[i] IN
       /\ l.lead
       /\ \A j \in 1..Len(l.parts) : l.parts[j].k = "text"

\* C11: for a timed text with two-digit fractions the parser returns its
\* segments in ascending order of startTime, and the intervals
\* [startTime, endTime) of two segments never overlap: each segment ends no
\* later than every later segment starts.
C11_SortedNoOverlap ==
  lyricsArray # Null /\ TwoDigitInput(payload) =>
    LET out == Get(lyricsArray) IN
    /\ \A i \in 1..(Len(out) - 1) : out[i].startTime <= out[i + 1].startTime
    /\ \A i \in 1..Len(out) : \A j \in 1..Len(out) :
         i < j =>
           /\ Field(out[i], "endTime") # Null
           /\ Get(Field(out[i], "endTime")) <= out[j].startTime

\* C12: a text of n timed lines without sub-tags parses to n segments with
\* words absent; the endTime of a segment is the startTime of the next one,
\* that of the last segment its startTime plus 3 s, and duration is
\* endTime - startTime, never negative.
C12_ChainedEndTimes ==
  lyricsArray # Null /\ PlainTimedInput(payload) =>
    LET out == Get(lyricsArray)
        n == Len(payload.lines)
    IN /\ Len(out) = n
       /\ \A i \in 1..n : out[i].words = Null
       /\ \A i \in 1..n :
            /\ Field(out[i], "endTime") =
                 Some(IF i < n THEN out[i + 1].startTime ELSE out[i].startTime + 300)
            /\ Field(out[i], "duration") # Null
            /\ Get(Field(out[i], "duration")) =
                 Get(Field(out[i], "endTime")) - out[i].startTime
            /\ Get(Field(out[i], "duration")) >= 0

\* C13: when the first segment starts more than 0.5 s after t = 0, the
\* timeline holds an isGap segment over [0, that start), so a first tag
\* [00:02.00] gives a gap over [0, 2.0); when a segment starts more than 0.5 s
\* after the one before it ended, an isGap segment covers the time between.
C13_GapsFilled ==
  lyricsArray # Null /\ TwoDigitInput(payload) /\ Len(Get(lyricsArray)) > 0 =>
    LET out == Get(lyricsArray)
        sung == {i \in 1..Len(out) : Field(out[i], "isGap") # Some(TRUE)}
        GapOver(from, to) ==
          \E g \in 1..Len(out) :
            /\ Field(out[g], "isGap") = Some(TRUE)
            /\ out[g].startTime = from
            /\ Field(out[g], "endTime") = Some(to)
    IN /\ sung # {}
       /\ out[Min(sung)].startTime > 50 => GapOver(0, out[Min(sung)].startTime)
       /\ \A i \in sung : \A j \in sung :
            /\ i < j
            /\ \A k \in sung : ~(i < k /\ k < j)
            /\ Field(out[i], "endTime") # Null
            /\ out[j].startTime - Get(Field(out[i], "endTime")) > 50
            => GapOver(Get(Field(out[i], "endTime")), out[j].startTime)

\* the instant a tag denotes, in hundredths of a second: a fraction of two
\* digits counts hundredths, one of three digits thousandths
InstantOf(mm, ss, frac, digits) ==
  mm * 6000 + ss * 100 + (IF digits = 3 THEN frac \div 10 ELSE frac)

\* C14: the startTime of a segment is the instant of its line tag and the
\* time of a word the instant of a word tag (or of the line tag), where a
\* fraction of two digits is read as hundredths and one of three digits as
\* thousandths: [00:01.500] and [00:01.50] are the same instant.
C14_FractionByWidth ==
  lyricsArray # Null /\ payload.k = "text" =>
    LET out == Get(lyricsArray)
        timed == TimedLinesOf(payload)
        starts == {InstantOf(timed[i].mm, timed[i].ss, timed[i].frac, timed[i].digits) :
                     i \in 1..Len(timed)}
        tags == UNION {{InstantOf(p.mm, p.ss, p.frac, p.digits) :
                          p \in {timed[i].parts[j] : j \in 1..Len(timed[i].parts)} \cap
                                {q \in {timed[i].parts[j] : j \in 1..Len(timed[i].parts)} :
                                   q.k = "ts" /\ q.digits \in {2, 3}}} :
                       i \in 1..Len(timed)}
    IN /\ {out[i].startTime : i \in 1..Len(out)} = starts
       /\ \A i \in 1..Len(out) :
            out[i].words # Null =>
              \A w \in 1..Len(Get(out[i].words)) :
                Get(out[i].words)[w].time \in starts \cup tags

\* the text runs between the tags of a line body that are not blank, in
\* order, each with the instant of the nearest timestamp tag before it
RECURSIVE RunsOf(_, _)
RunsOf(parts, time) ==
  IF parts = <<>> THEN <<>>
  ELSE LET p == Head(parts) IN
       IF p.k = "ts" THEN RunsOf(Tail(parts), InstantOf(p.mm, p.ss, p.frac, p.digits))
       ELSE IF p.k = "tag" \/ p.text \in {"", " "} THEN RunsOf(Tail(parts), time)
       ELSE <<[text |-> p.text, time |-> time]>> \o RunsOf(Tail(parts), time)

\* C15: the words of a line with embedded <MM:SS.ff> tags are the non-blank
\* text runs between its tags, in input order, each with the time of the
\* nearest timestamp tag before it, or the line's startTime when there is
\* none; the line [00:00.00] <00:00.01>Testing <00:00.50>the <00:01.00>syllable
\* has 3 words at 0.01 s, 0.50 s and 1.00 s.
C15_WordsPerTextRun ==
  lyricsArray # Null /\ TwoDigitInput(payload) =>
    LET out == Get(lyricsArray) IN
    \A i \in 1..Len(out) : \A k \in 1..Len(payload.lines) :
      LET l == payload.lines[k]
          start == InstantOf(l.mm, l.ss, l.frac, l.digits)
          runs == RunsOf(l.parts, start)
      IN /\ l.lead
         /\ start = out[i].startTime
         /\ \E j \in 1..Len(l.parts) : l.parts[j].k = "ts"
         /\ runs # <<>>
         => out[i].words = Some(runs)

\* C16: the parser returns the empty sequence for an absent or empty input,
\* one segment for each line that starts with a [MM:SS.fraction] tag and none
\* for any other line, and a tagged line with an empty body is kept as a
\* segment with empty text and no words; the parser does not throw on a text.
C16_EdgeCases ==
  /\ payload.k # "other" => ~threw
  /\ lyricsArray # Null =>
       LET out == Get(lyricsArray) IN
       /\ payload.k = "absent" => out = <<>>
       /\ payload.k = "text" =>
            /\ Len(out) = Cardinality({k \in 1..Len(payload.lines) :
                            payload.lines[k].lead /\ payload.lines[k].digits \in {2, 3}})
            /\ \A k \in 1..Len(payload.lines) :
                 /\ payload.lines[k].lead
                 /\ payload.lines[k].digits \in {2, 3}
                 /\ payload.lines[k].parts = <<>>
                 => \E i \in 1..Len(out) : out[i].text = <<>> /\ out[i].words = Null

\* C16 witness: of the lines "j", "[00:07.0]i" and "[00:02.30]" only the last
\* is kept, with empty text
C16_Witness ==
  /\ payload = Text(<<PlainLine(<<TextPart("j")>>),
                      TimedLine(0, 7, 0, 1, <<TextPart("i")>>),
                      TimedLine(0, 2, 30, 2, <<>>)>>)
  /\ lyricsArray = Some(<<[startTime |-> 230, text |-> <<>>, words |-> Null]>>)

\* the texts of the parts of a body that satisfy Keep and are not blank
RunTexts(parts, Keep(_)) ==
  LET kept == SelectSeq(parts, LAMBDA p : Keep(p) /\ p.text \notin {"", " "})
  IN [j \in 1..Len(kept) |-> kept[j].text]

\* C17: the text of a segment is the body of its line without any <...> tag:
\* it holds the text runs of the body and no tag; words is absent for every
\* line without an embedded timestamp tag.
C17_TextIsTagFree ==
  lyricsArray # Null /\ payload.k = "text" =>
    LET out == Get(lyricsArray) IN
    \A i \in 1..Len(out) :
      /\ \A k \in 1..Len(payload.lines) : \A j \in 1..Len(payload.lines[k].parts) :
           LET p == payload.lines[k].parts[j] IN
           p.k # "text" => \A t \in 1..Len(out[i].text) : out[i].text[t] # p.text
      /\ \E k \in 1..Len(payload.lines) :
           LET l == payload.lines[k] IN
           /\ l.lead
           /\ TimeOf(l.mm, l.ss, l.frac) = out[i].startTime
           /\ RunTexts([t \in 1..Len(out[i].text) |-> TextPart(out[i].text[t])],
                       LAMBDA p : TRUE)
                = RunTexts(l.parts, LAMBDA p : p.k = "text")
           /\ (\A j \in 1..Len(l.parts) : l.parts[j].k # "ts") => out[i].words = Null

\* C17 witness: "[00:03.00]<b>e" gives the text "e" and no words
C17_Witness ==
  /\ payload = Text(<<TimedLine(0, 3, 0, 2, <<TagPart("<b>"), TextPart("e")>>)>>)
  /\ lyricsArray = Some(<<[startTime |-> 300, text |-> <<"e">>, words |-> Null]>>)

\* C18: for a non-empty timeline the cursor shows the active segment and the
\* 3 segments after it, in the order of the timeline and without a hole,
\* fewer when the timeline ends before, and never nothing.
C18_VisibleSlice ==
  shown # Null /\ currentLyrics # Null /\ currentLyrics # Some(<<>>) =>
    LET tl == Get(currentLyrics)
        a == container.activeIndex + 1
        n == Len(container.lines)
    IN /\ container.kind = "lines"
       /\ n >= 1
       /\ n = Min({3 + 1, Len(tl) - a + 1})
       /\ \A i \in 1..n :
            /\ container.lines[i].text = tl[a + i - 1].text
            /\ container.lines[i].isActive = (i = 1)

\* C18 witness: of a timeline of 5 segments the first 4 are shown
C18_Witness ==
  /\ shown # Null
  /\ currentLyrics # Null
  /\ Len(Get(currentLyrics)) = 5
  /\ container.activeIndex = 0
  /\ Len(container.lines) = 4

\* C19: with word or syllable granularity the words of the active segment
\* are each marked as passed exactly when the position has reached the word's
\* time; the words of the segments shown after it are never marked; with line
\* granularity, or for a segment without words, nothing is computed per word.
C19_WordHighlight ==
  shown # Null /\ currentLyrics # Null /\ currentLyrics # Some(<<>>) =>
    LET tl == Get(currentLyrics)
        a == container.activeIndex + 1
        p == Get(shown)
    IN \A i \in 1..Len(container.lines) :
         LET seg == tl[a + i - 1]
             line == container.lines[i]
         IN IF lyricsType \in {"word", "syllable"} /\ seg.words # Null
            THEN /\ line.words # Null
                 /\ Len(Get(line.words)) = Len(Get(seg.words))
                 /\ \A w \in 1..Len(Get(seg.words)) :
                      Get(line.words)[w].isPast =
                        (i = 1 /\ p >= Get(seg.words)[w].time)
            ELSE line.words = Null

\* C19 witness: at 5 s the active line has the word "e" (1 s) passed and the
\* word "d" (5.5 s) not yet
C19_Witness ==
  /\ shown = Some(500)
  /\ lyricsType = "syllable"
  /\ container.kind = "lines"
  /\ container.lines[1].words =
       Some(<<[text |-> "d", isPast |-> FALSE], [text |-> "e", isPast |-> TRUE]>>)

\* C20: state.currentLyrics changes only by a reset to null or by the
\* installation of the whole parser output for one payload of the fetch that
\* just completed: it never holds segments of two fetches, and no cursor tick
\* or later event edits an installed timeline.
C20_ReplacedWholesale ==
  [][currentLyrics' # currentLyrics =>
       \/ currentLyrics' = Null
       \/ \E inv \in BagToSet(pending) : \E a \in TimedAdapters :
            /\ pending' = pending (-) SetToBag({inv})
            /\ currentLyrics' = Some(ParseEnhancedLRC(TimedDoc(inv.track, a)))]_vars

\* C20 witness: the timeline of Y from Better Lyrics is installed and shown
\* for the track Y while another invocation of the handler is suspended
C20_Witness ==
  /\ currentLyrics = Some(ParseEnhancedLRC(TimedDoc("Y", "Better Lyrics")))
  /\ trackTitle = "Y"
  /\ container.kind = "lines"
  /\ pending # EmptyBag

\* C21: a cursor tick and a render leave currentLyrics, lyricsSource,
\* lyricsType and currentPosition as they are: every step that changes one of
\* them is a step of the track-change path (a host track callback or the
\* continuation of a handler invocation).
C21_SingleWriter ==
  [][<<currentLyrics, lyricsSource, lyricsType, currentPosition>>' #
       <<currentLyrics, lyricsSource, lyricsType, currentPosition>> =>
       \/ \E d \in HostData : TrackEvent(d, FALSE)
       \/ \E inv \in BagToSet(pending) :
            \/ \E r \in Responses(inv.stage) : Respond(inv, r, FALSE)
            \/ Timeout(inv, FALSE)]_vars

\* C21 witness: an installed timeline is shown by the cursor and the canvas
\* was rendered at another size, with no fetch under way
C21_Witness ==
  /\ currentLyrics # Null
  /\ container.kind = "lines"
  /\ canvas = [width |-> 1280, height |-> 720]
  /\ pending = EmptyBag

\* C22: while a fetchLyrics call runs, its steps (an adapter moving from one
\* network call to the next, the parser) change none of currentLyrics,
\* lyricsSource, lyricsType and currentPosition: a step in which an
\* invocation only moves to another call leaves them as they are.
C22_AdaptersWriteNothing ==
  [][pending' # pending /\ BagCardinality(pending') = BagCardinality(pending) =>
       UNCHANGED <<currentLyrics, lyricsSource, lyricsType, currentPosition>>]_vars

\* C22 witness: a timeline is installed while an invocation is in the last
\* call of LRClib
C22_Witness ==
  /\ currentLyrics # Null
  /\ \E inv \in BagToSet(pending) : inv.stage = "LRC2_relay"

\* the words of a string: its maximal runs of characters that are no white
\* space, lower-cased
RECURSIVE WordsIn(_, _)
WordsIn(str, word) ==
  IF str = <<>> THEN (IF word = <<>> THEN <<>> ELSE <<word>>)
  ELSE IF Head(str) \in {" ", "\t"}
       THEN (IF word = <<>> THEN <<>> ELSE <<word>>) \o WordsIn(Tail(str), <<>>)
       ELSE WordsIn(Tail(str), Append(word, IF Head(str) = "B" THEN "b" ELSE Head(str)))

\* the words joined by single spaces
RECURSIVE Joined(_)
Joined(words) ==
  IF words = <<>> THEN <<>>
  ELSE IF Len(words) = 1 THEN words[1]
  ELSE words[1] \o <<" ">> \o Joined(Tail(words))

\* C23: artistClean and titleClean are the input trimmed, lower-cased and
\* with every run of white space collapsed to one space, that is, the
\* lower-cased words of the input joined by single spaces; an absent input
\* gives the empty string; and formatSearch applied to its own output returns
\* it unchanged.
C23_FormatSearch ==
  formatted # Null =>
    LET out == Get(formatted)
        again == FormatSearch(Some(out.artistClean), Some(out.titleClean))
    IN /\ out.artistClean = Joined(WordsIn(IF search.artist = Null THEN <<>>
                                           ELSE Get(search.artist), <<>>))
       /\ out.titleClean = Joined(WordsIn(IF search.title = Null THEN <<>>
                                          ELSE Get(search.title), <<>>))
       /\ search.artist = Null => out.artistClean = <<>>
       /\ search.title = Null => out.titleClean = <<>>
       /\ again.artistClean = out.artistClean
       /\ again.titleClean = out.titleClean

\* C23 witness: " B", a tab, a space and "a" for the artist and "B  a" for
\* the title both give "b a"
C23_Witness ==
  /\ search = [artist |-> Some(<<"B", "\t", " ", "a">>),
               title |-> Some(<<"B", " ", " ", "a">>)]
  /\ formatted # Null
  /\ Get(formatted).artistClean = <<"b", " ", "a">>
  /\ Get(formatted).titleClean = <<"b", " ", "a">>

\* C24: a host callback for a playing track that carries Position (or,
\* without it, Progress) of p milliseconds leaves state.currentPosition at
\* p/1000 seconds when it returns.
C24_PositionStored ==
  [][\A d \in HostData :
       (/\ d.obj = "track"
        /\ d.position # Null \/ d.progress # Null
        /\ TrackEvent(d, FALSE)) =>
         currentPosition' = SecondsOf(Get(IF d.position # Null THEN d.position
                                          ELSE d.progress))]_vars

\* C25: a host callback that reports the track whose timeline is installed
\* leaves currentLyrics and lyricsSource as they are and starts no fetch.
C25_SameTrackKeepsLyrics ==
  [][\A d \in HostData :
       (/\ currentLyrics # Null
        /\ d.obj = "track"
        /\ d.title = Some(trackTitle)
        /\ d.artist
        /\ TrackEvent(d, FALSE)) =>
         UNCHANGED <<currentLyrics, lyricsSource, pending>>]_vars

\* C26: a null-track event leaves currentLyrics absent, lyricsSource "" and
\* lyricsType "line", and they stay so while no track event with a track
\* follows (the title on display stays empty), whatever fetch resolves.
C26_NullTrackStaysCleared ==
  [][/\ TrackEvent(NullTrack, FALSE) =>
          (currentLyrics' = Null /\ lyricsSource' = "" /\ lyricsType' = "line")
     /\ (/\ trackTitle = "" /\ trackTitle' = ""
         /\ currentLyrics = Null /\ lyricsSource = "" /\ lyricsType = "line") =>
          (currentLyrics' = Null /\ lyricsSource' = "" /\ lyricsType' = "line")]_vars

\* C28: state.lyricsType is always one of line, word and syllable; it is
\* "line" whenever no timeline is installed; and with a timeline installed it
\* is the granularity of the adapter named by lyricsSource: syllable for
\* Better Lyrics, word for Musixmatch, line for LRClib and Genius.
C28_GranularityMatches ==
  /\ lyricsType \in {"line", "word", "syllable"}
  /\ currentLyrics = Null => lyricsType = "line"
  /\ currentLyrics # Null =>
       lyricsType = (CASE lyricsSource = "Better Lyrics" -> "syllable"
                       [] lyricsSource = "Musixmatch" -> "word"
                       [] lyricsSource \in {"LRClib", "Genius"} -> "line"
                       [] OTHER -> "none")

\* C27: a fetchLyrics call visits the adapters in their order, each at most
\* once, issues at most 8 network calls, and, every network call ending at
\* some time, resolves.
C27_FetchTerminates ==
  /\ [](/\ Len(trace.invoked) <= Len(Adapters)
        /\ \A i, j \in 1..Len(trace.invoked) :
             i < j => AdapterIndex(trace.invoked[i]) < AdapterIndex(trace.invoked[j])
        /\ trace.total <= 8)
  /\ (trace.outcome = "pending") ~> (trace.outcome = "resolved")

\* C27 witness: a fetch that made all 8 network calls has resolved
C27_Witness ==
  /\ trace.outcome = "resolved"
  /\ trace.total = 8
  /\ Len(trace.invoked) = 4
  /\ pending = EmptyBag

\* the ends of a call: the answers of its server, and the abort
EndsOf(stage) == Responses(stage) \cup {"abort"}

\* the step is the end r of the call the invocation inv waits for
EndOfCall(inv, r) ==
  \/ Respond(inv, r, TRUE)
  \/ r = "abort" /\ Timeout(inv, TRUE)

\* the fetch `call` is among the events, issued or refused
Fetched(events, call) ==
  \E j \in 1..Len(events) : events[j].e \in {"call", "refused"} /\ events[j].who = call

\* the adapter returned null among the events
ReturnedNull(events, adapter) ==
  \E j \in 1..Len(events) :
    events[j].e = "return" /\ events[j].who = adapter /\ events[j].res = Null

\* C29: when the direct call of Better Lyrics ends, the relay is fetched
\* exactly when the direct attempt threw (network error, abort, status not
\* OK, body that does not decode); an answer with no tracks or no
\* syncedLyrics makes the adapter return null without a fetch of the relay;
\* and when the relay attempt fails the adapter returns null and fetches
\* nothing more.
C29_RelayOnThrow ==
  [][\A inv \in BagToSet(pending) : \A r \in EndsOf(inv.stage) :
       (inv.stage \in {"BL", "BL_relay"} /\ EndOfCall(inv, r)) =>
         LET events == FetchLyricsResume(inv, r).events
             relay == Fetched(events, "BL_relay")
             inflight == \E w \in BagToSet(pending') : w.stage = "BL_relay"
             null == /\ ReturnedNull(events, "Better Lyrics")
                     /\ trace'.yields[1].res = Null
         IN /\ ~Fetched(events, "BL")
            /\ inv.stage = "BL" =>
                 /\ relay <=> r \in {"neterr", "abort", "notok", "badjson", "badshape"}
                 /\ inflight <=> r \in {"neterr", "notok", "badjson", "badshape"}
                 /\ r \in {"notracks", "nosynced", "abort"} => null
            /\ inv.stage = "BL_relay" =>
                 /\ ~relay /\ ~inflight
                 /\ r \notin {"other", "untimed", "timed"} => null]_vars

\* C29 witness: the direct call was answered with a status that is not OK,
\* the relay was called and its answer made the result of the fetch
C29_Witness ==
  /\ trace.invoked = <<"Better Lyrics">>
  /\ trace.calls = <<[call |-> "BL", class |-> "notok"],
                     [call |-> "BL_relay", class |-> "answered"]>>
  /\ trace.outcome = "resolved"
  /\ trace.result # Null

\* C30: LRClib fetches its two query formats in order and the second only
\* when the first gave no usable track; from a result list that is not empty
\* it takes the first entry that has syncedLyrics, else the first entry,
\* returns the entry's syncedLyrics if it has any and else its plainLyrics,
\* with synced true exactly for syncedLyrics.
C30_LrclibPicks ==
  [][\A inv \in BagToSet(pending) : \A r \in EndsOf(inv.stage) :
       (AdapterOfCall(inv.stage) = "LRClib" /\ EndOfCall(inv, r)) =>
         LET events == FetchLyricsResume(inv, r).events
             first == inv.stage \in {"LRC1", "LRC1_relay"}
             results == IF r \in {"abort", "neterr", "notok", "badjson", "badshape",
                                  "nocontents", "badcontents"}
                        THEN <<>> ELSE LrclibResults(inv.track, r)
             withSynced == {i \in 1..Len(results) : results[i].syncedLyrics # Absent}
             track == results[IF withSynced = {} THEN 1
                              ELSE CHOOSE i \in withSynced : \A j \in withSynced : i <= j]
             usable == /\ results # <<>>
                       /\ track.syncedLyrics # Absent \/ track.plainLyrics # Absent
             relayed == inv.stage \in {"LRC1", "LRC2"} /\ r = "notok"
         IN /\ ~Fetched(events, "LRC1")
            /\ Fetched(events, "LRC2") <=> first /\ ~usable /\ ~relayed
            /\ usable =>
                 /\ Len(trace'.yields) >= 3
                 /\ trace'.yields[3].res =
                      Some([lyrics |-> IF withSynced # {} THEN track.syncedLyrics
                                       ELSE track.plainLyrics,
                            source |-> "LRClib",
                            synced |-> withSynced # {},
                            type |-> "line"])
            /\ ~usable /\ ~relayed /\ ~first => ReturnedNull(events, "LRClib")]_vars

\* C30 witness: the first format was answered without a usable track, the
\* second with a list whose second entry has syncedLyrics, which made the
\* result of the fetch
C30_Witness ==
  /\ trace.invoked = <<"Better Lyrics", "Musixmatch", "LRClib">>
  /\ trace.calls = <<[call |-> "LRC1", class |-> "answered"],
                     [call |-> "LRC2", class |-> "answered"]>>
  /\ trace.outcome = "resolved"
  /\ trace.result # Null
  /\ Get(trace.result).lyrics = TimedDoc(trace.track, "LRClib")
  /\ Get(trace.result).synced

\* a provider result without any tagged line: the text of Genius, the
\* plainLyrics of LRClib, an untimed body of Musixmatch
Untimed(res, t) ==
  \/ res.source = "Genius"
  \/ res.source = "LRClib" /\ ~res.synced
  \/ res.source = "Musixmatch" /\ res.lyrics = UntimedDoc(t)

C32_AbsentChangesNothing ==
  [][\A inv \in BagToSet(pending) : \A r \in EndsOf(inv.stage) :
       (/\ FetchLyricsResume(inv, r).done
        /\ \/ FetchLyricsResume(inv, r).result = Null
           \/ Len(Get(FetchLyricsResume(inv, r).result).parsedLyrics) = 0
        /\ \/ Respond(inv, r, FALSE)
           \/ r = "abort" /\ Timeout(inv, FALSE)) =>
         UNCHANGED <<currentLyrics, lyricsSource, lyricsType, currentPosition>>]_vars

\* C32 witness: a fetch has resolved to null (the container says so) while
\* the timeline of another fetch stays installed
C32_Witness ==
  /\ currentLyrics # Null
  /\ lyricsSource \in {"Better Lyrics", "Musixmatch", "LRClib"}
  /\ container.kind = "nolyrics"

\* C33: a track event whose track lacks a Title or an Artist starts no fetch
\* (no invocation is added to the suspended ones) and leaves currentLyrics
\* absent and lyricsSource "Loading..."; and they stay so while no other
\* track event follows (the title on display stays that of a track without
\* Title).
C33_NoTitleNoFetch ==
  [][/\ \A d \in HostData :
          (d.obj = "track" /\ ~StartsFetch(d) /\ TrackEvent(d, FALSE)) =>
            /\ pending' = pending
            /\ currentLyrics' = Null
            /\ lyricsSource' = "Loading..."
     /\ (/\ trackTitle = "undefined" /\ trackTitle' = "undefined"
         /\ currentLyrics = Null /\ lyricsSource = "Loading...") =>
          (currentLyrics' = Null /\ lyricsSource' = "Loading...")]_vars

\* C34: on one timeline, a call of the cursor at a position that is not
\* before the position of the call before it shows an active index that is
\* not lower.
C34_MonotoneIndex ==
  [][(/\ shown # Null /\ shown' # Null
      /\ Get(shown) <= Get(shown')
      /\ container.kind = "lines" /\ container'.kind = "lines") =>
        container.activeIndex <= container'.activeIndex]_vars

\* C34 witness: on segments starting at 0 s, 2 s and 5 s the cursor was
\* called at 2.5 s and shows index 1
C34_Witness ==
  /\ shown = Some(250)
  /\ currentLyrics # Null
  /\ Len(Get(currentLyrics)) = 3
  /\ Get(currentLyrics)[2].startTime = 200
  /\ Get(currentLyrics)[3].startTime = 500
  /\ container.activeIndex = 1

\* C35: the segments the parser returns for a text are those of its lines
\* that start with a timestamp tag, one for one: there is a one-to-one
\* pairing of the segments with these lines under which each segment is that
\* of its line and segments of equal startTime stand in the order of their
\* lines.
C35_OneSegmentPerLine ==
  (lyricsArray # Null /\ payload.k = "text") =>
    LET out == Get(lyricsArray)
        cands == TimedLinesOf(payload)
        n == Len(cands)
    IN /\ Len(out) = n
       /\ \E pairing \in [1..n -> 1..n] :
            /\ \A i, j \in 1..n : i # j => pairing[i] # pairing[j]
            /\ \A i \in 1..n : out[i] = SegmentOf(cands[pairing[i]])
            /\ \A i, j \in 1..n :
                 (i < j /\ out[i].startTime = out[j].startTime) => pairing[i] < pairing[j]

\* C35 witness: of the lines "[00:06.00]<00:06.500>h", "[00:01.500]d" and
\* "[00:02.00]b" the first two start at the same time and keep their order
\* behind the third
C35_Witness ==
  /\ payload = Text(<<TimedLine(0, 6, 0, 2, <<TsPart(0, 6, 500, 3), TextPart("h")>>),
                      TimedLine(0, 1, 500, 3, <<TextPart("d")>>),
                      TimedLine(0, 2, 0, 2, <<TextPart("b")>>)>>)
  /\ lyricsArray # Null
  /\ Len(Get(lyricsArray)) = 3
  /\ Get(lyricsArray)[2].startTime = Get(lyricsArray)[3].startTime
  /\ Get(lyricsArray)[2].text = <<"h">>
  /\ Get(lyricsArray)[3].text = <<"d">>

\* ------------------------------------------------------------------ C36

\* C36: after any sequence of property events the effective flags follow the
\* album-art switch: while displayMusicArt is false, useFilter,
\* useDynamicBackground and useDynamicColors are false; while it is true they
\* equal tempUsefilter, tempUseDynamicBackground and tempUseDynamicColors.
C36_FlagsFollowArt ==
  IF settings.displayMusicArt
  THEN /\ settings.useFilter = settings.tempUsefilter
       /\ settings.useDynamicBackground = settings.tempUseDynamicBackground
       /\ settings.useDynamicColors = settings.tempUseDynamicColors
  ELSE /\ ~settings.useFilter
       /\ ~settings.useDynamicBackground
       /\ ~settings.useDynamicColors

\* the album art is off and the remembered choices are not all the same
C36_Witness ==
  /\ ~settings.displayMusicArt
  /\ ~settings.tempUsefilter
  /\ settings.tempUseDynamicBackground
  /\ ~settings.tempUseDynamicColors

\* ------------------------------------------------------------------ C37

\* C37: after any sequence of property and track events, whenever
\* useDynamicColors is false primaryColor and secondaryColor equal
\* defaultPrimaryColor and defaultSecondaryColor, and whenever
\* useDynamicBackground is false backgroundColor and lineColor equal
\* defaultBackgroundColor and defaultLineColor.
C37_DefaultsWhenOff ==
  /\ ~settings.useDynamicColors =>
       /\ settings.primaryColor = settings.defaultPrimaryColor
       /\ settings.secondaryColor = settings.defaultSecondaryColor
  /\ ~settings.useDynamicBackground =>
       /\ settings.backgroundColor = settings.defaultBackgroundColor
       /\ settings.lineColor = settings.defaultLineColor

====
